---- MODULE Spec2Model ----
(***************************************************************************)
(* Model of the resolution engine of package di (ttd2089/garlic):           *)
(* RootProvider, Scope, instanceMap and Scope.Close.                         *)
(*                                                                           *)
(* Spec is the resolution engine: goroutines calling Resolve on the         *)
(* RootProvider and on Scopes, with instanceMap.resolve modelled lock step   *)
(* by lock step.  SpecClose is the teardown protocol of Scope.Close,         *)
(* goroutine by goroutine, started from a state in which scopes hold cached  *)
(* values; FairSpecClose adds the fairness of the Go scheduler.              *)
(* SpecRegistry is a program that chains registration calls on Registry      *)
(* values and builds a RootProvider; SpecRegister is one registration call   *)
(* for every combination of arguments; SpecFacade is one call of the typed   *)
(* Resolve[T] over a mock Resolver; SpecFactory is the factory that          *)
(* GetDefaultFactory derives, called with a test Resolver; SpecDependencies  *)
(* is the resolution engine with factories that resolve their dependencies   *)
(* through the Resolver they are given, FairSpecDependencies adds the        *)
(* fairness of the Go scheduler.  SpecReclose is Scope.Close called again    *)
(* on a scope, with Resolve calls after each call of Close; SpecStructs is   *)
(* RegisterType of a struct or pointer type followed by Resolve calls that   *)
(* run the default factory against the built provider.                       *)
(***************************************************************************)
EXTENDS Integers, Sequences, FiniteSets, Bags, TLC

----------------------------------------------------------------------------
(* Bounds of the model. *)

\* Number of goroutines that call Resolve concurrently.
NumCallers == 2

\* Number of scopes NewScope may create.
MaxScopes == 2

\* Number of Resolve calls made in one behaviour.
MaxCalls == 2

----------------------------------------------------------------------------
(* Lifetimes: lifetime.go, `Transient Lifetime = iota + 1`. *)

Transient == 1
Scoped == 2
Singleton == 3

----------------------------------------------------------------------------
(* Type descriptors (reflect.Type values) the callers ask for.  TUnknown is  *)
(* never registered.                                                         *)

Types == {"TTransient", "TScoped", "TSingleton", "TUnknown"}

\* The context id of the RootProvider; scopes are 1, 2, ...
Root == 0

\* The cache id used by a factory call that goes through no instanceMap.
NoCache == -1

\* A nil `any` value.
Nil == 0

Callers == 1..NumCallers

VARIABLES
    registrations,  \* RootProvider.registrations: target type -> registration
    scopes,         \* scopes[s]: the context whose NewScope created Scope s
    instances,      \* instances[c]: instanceMap.instances of cache c
    mu,             \* mu[c]: the goroutine holding instanceMap.mu for writing, 0 if none
    callers,        \* callers[p]: the stack of Resolve frames of goroutine p
    history,        \* the bag of Resolve calls that have returned
    nextInstance,   \* identity of the next value a factory allocates
    ctxDone,        \* the context given to Scope.Close is done (ctx.Done() is closed)
    closePc,        \* Scope.Close: "idle" (not called), "select" (in the loop), "returned"
    closeScope,     \* the Scope that Close was called on
    tasks,          \* tasks[v]: the goroutine closing cached value v
    wg,             \* the WaitGroup counter
    wgDone,         \* the wgDone channel is closed
    closeErrorsCh,  \* the buffered channel closeErrorsCh
    closeErrors,    \* the local slice closeErrors
    closeResult,    \* the slice Close returned
    closeCalls,     \* the number of calls of Scope.Close made so far
    heap,           \* heap[m]: the registrations map allocated as map m
    held,           \* the Registry values the program holds: a map of heap, or Nil
    providerMap,    \* the map RootProvider.registrations refers to
    pending,        \* a registration call about to be made
    lastCall,       \* the last registration call that returned
    mock,           \* the mockResolver: requestedTypes and returnValues
    facadeCall,     \* Resolve[T]: T, the resolver, and what the resolver was set to return
    facadeResult,   \* what Resolve[T] returned
    factoryCall,    \* the type whose default factory is derived, and the resolver it is called with
    allocs,         \* the maps, channels and variables allocated so far
    factoryResults  \* what the invocations of the default factory returned

resolveVars == <<registrations, scopes, instances, mu, callers, history, nextInstance>>

closeVars == <<ctxDone, closePc, closeScope, tasks, wg, wgDone, closeErrorsCh,
               closeErrors, closeResult, closeCalls>>

registryVars == <<heap, held, providerMap, pending, lastCall>>

facadeVars == <<mock, facadeCall, facadeResult>>

factoryVars == <<factoryCall, allocs, factoryResults>>

vars == <<resolveVars, closeVars, registryVars, facadeVars, factoryVars>>

----------------------------------------------------------------------------
(* Errors. *)

NoError == [kind |-> "nil", Type |-> "-"]

UnknownType(typ) == [kind |-> "UnknownType", Type |-> typ]

ScopedValueRequestedFromRootProvider(typ) ==
    [kind |-> "ScopedValueRequestedFromRootProvider", Type |-> typ]

\* The error a registered factory returns when it fails.
FactoryError(typ) == [kind |-> "FactoryError", Type |-> typ]

\* UnknownType.Is
IsErrUnknownType(err) == err.kind = "UnknownType"

----------------------------------------------------------------------------
(* Contexts and caches. *)

ScopeIds == 1..Len(scopes)

Contexts == {Root} \cup ScopeIds

CacheIds == {Root} \cup (1..MaxScopes)

\* The singleton cache reached through the RootProvider value that context
\* `holder` holds: NewScope copies the RootProvider into the Scope, and its
\* singletons field is a pointer, so every copy reaches the same instanceMap.
SingletonsPerHolder(holder) == holder

SingletonsOf(holder) == Root

\* The scoped cache of a Scope: NewScope gives each Scope a new instanceMap.
ScopedValuesOfCreator(scope) ==
    IF scopes[scope] = Root THEN scope ELSE scopes[scope]

ScopedValuesOfFirstScope(scope) == 1

ScopedValuesOf(scope) == scope

----------------------------------------------------------------------------
(* Resolve: the dispatch made on entry, before any cache is touched.  The    *)
(* result names where the call continues: pc "get" is instanceMap.resolve    *)
(* on `cache`, pc "transient" is a direct factory call, pc "done" is an      *)
(* immediate return of `err`.  `resolver` is the Resolver the factory gets.  *)

Continue(pc, cache, resolver) ==
    [pc |-> pc, cache |-> cache, resolver |-> resolver, err |-> NoError]

Fail(err) ==
    [pc |-> "done", cache |-> NoCache, resolver |-> Root, err |-> err]

\* RootProvider.Resolve, `if !ok`: the type has no registration.
ResolveUnregisteredErrorf(typ) ==
    Fail([kind |-> "errorString", Type |-> typ])

ResolveUnregistered(typ) ==
    Fail(UnknownType(typ))

\* RootProvider.Resolve, `case Transient`: the factory is called directly,
\* with the RootProvider as resolver.
ResolveTransientThroughCache(holder) ==
    Continue("get", Root, Root)

ResolveTransient(holder) ==
    Continue("transient", NoCache, Root)

\* RootProvider.Resolve, `case Scoped`.
ResolveScopedOnRootAsSingleton(holder, typ) ==
    Continue("get", Root, Root)

ResolveScopedOnRoot(holder, typ) ==
    Fail(ScopedValueRequestedFromRootProvider(typ))

\* RootProvider.Resolve, `case Singleton`: instanceMap.resolve on the singleton
\* cache, with the RootProvider as resolver.
ResolveSingletonWithHolder(holder) ==
    Continue("get", SingletonsOf(holder), holder)

ResolveSingleton(holder) ==
    Continue("get", SingletonsOf(holder), Root)

\* RootProvider.Resolve, called on the copy of the RootProvider that context
\* `holder` holds (the RootProvider itself, or the root field of a Scope).
RootProviderResolve(holder, typ) ==
    IF typ \notin DOMAIN registrations
    THEN ResolveUnregistered(typ)
    ELSE CASE registrations[typ].lifetime = Transient -> ResolveTransient(holder)
           [] registrations[typ].lifetime = Scoped -> ResolveScopedOnRoot(holder, typ)
           [] registrations[typ].lifetime = Singleton -> ResolveSingleton(holder)
           [] OTHER -> Fail([kind |-> "panic", Type |-> typ])

\* Scope.Resolve
ScopeResolveSharedInScope(scope, typ) ==
    IF typ \in DOMAIN registrations /\ registrations[typ].lifetime \in {Scoped, Singleton}
    THEN Continue("get", ScopedValuesOf(scope), scope)
    ELSE RootProviderResolve(scope, typ)

ScopeResolve(scope, typ) ==
    IF typ \in DOMAIN registrations /\ registrations[typ].lifetime = Scoped
    THEN Continue("get", ScopedValuesOf(scope), scope)
    ELSE RootProviderResolve(scope, typ)

\* Resolve called on context ctx.
Dispatch(ctx, typ) ==
    IF ctx = Root THEN RootProviderResolve(Root, typ) ELSE ScopeResolve(ctx, typ)

----------------------------------------------------------------------------
(* instanceMap. *)

\* instanceMap.get / the re-check under the write lock: `v, ok := m.instances[typ]`
Has(cache, typ) == typ \in DOMAIN instances[cache]

\* The re-check of instanceMap.resolve made after mu.Lock().
RecheckSkipped(cache, typ) == FALSE

RecheckSingletonsOnly(cache, typ) == cache = Root /\ Has(cache, typ)

Recheck(cache, typ) == Has(cache, typ)

\* The map after instanceMap.resolve has called the factory: the value is
\* stored when the factory succeeded, nothing is stored when it failed.
StoreAlways(m, typ, service, ok) ==
    (typ :> service) @@ m

Store(m, typ, service, ok) ==
    IF ok THEN (typ :> service) @@ m ELSE m

\* What a factory call returns: a newly allocated value, or nil and an error.
FactoryValue(ok) == IF ok THEN nextInstance ELSE Nil

FactoryErr(typ, ok) == IF ok THEN NoError ELSE FactoryError(typ)

----------------------------------------------------------------------------
(* Goroutines calling Resolve. *)

Top(p) == callers[p][Len(callers[p])]

Pop(p) == [callers EXCEPT ![p] = SubSeq(@, 1, Len(@) - 1)]

SetPc(p, pc) == [callers EXCEPT ![p][Len(callers[p])].pc = pc]

\* The number of Resolve calls started so far.
CallsMade ==
    BagCardinality(history) + Cardinality({p \in Callers : callers[p] # <<>>})

\* The record of a Resolve call that has returned (val, err); `invoked` is the
\* number of factory calls it made, `cache` the instanceMap it went through
\* and `via` the statement that returned.
Returned(f, val, err, invoked) ==
    [ctx |-> f.ctx, typ |-> f.typ, val |-> val, err |-> err,
     cache |-> f.cache, invoked |-> invoked, via |-> f.pc]

----------------------------------------------------------------------------
(* reflect.Type values of the registration calls.  A type is a base type    *)
(* under a number of pointer indirections: `**func()` is func() under two.   *)

\* Depth of pointer indirection of the types that are registered.
MaxPtrDepth == 2

\* The kind of each base type (reflect.Type.Kind).
BaseKind(base) ==
    CASE base \in {"interface{}", "io.Reader", "io.ReadWriter"} -> "Interface"
      [] base = "bool" -> "Bool"
      [] base = "int" -> "Int"
      [] base = "float64" -> "Float64"
      [] base = "string" -> "String"
      [] base = "[3]int" -> "Array"
      [] base = "[]int" -> "Slice"
      [] base \in {"map[int]string", "map[string]int"} -> "Map"
      [] base = "chan int" -> "Chan"
      [] base \in {"struct{}", "bytes.Buffer", "widget", "gadget", "thing",
                   "unexportedFieldsOnly", "recursiveStruct"} -> "Struct"
      [] base = "uintptr" -> "Uintptr"
      [] base = "func()" -> "Func"
      [] base = "unsafe.Pointer" -> "UnsafePointer"

BaseTypes ==
    {"interface{}", "io.Reader", "io.ReadWriter", "int", "string", "[3]int",
     "[]int", "map[int]string", "chan int", "struct{}", "bytes.Buffer",
     "uintptr", "func()", "unsafe.Pointer"}

\* reflect.TypeFor[T]() for the types T of the model.
ReflectTypes == [ptr : 0..MaxPtrDepth, base : BaseTypes]

TypeFor(base) == [ptr |-> 0, base |-> base]

PointerTo(typ) == [typ EXCEPT !.ptr = @ + 1]

\* reflect.Type.Kind
Kind(typ) == IF typ.ptr > 0 THEN "Pointer" ELSE BaseKind(typ.base)

\* reflect.Type.Elem of a pointer type
Elem(typ) == [typ EXCEPT !.ptr = @ - 1]

\* The method sets: the types that implement interface type iface.
Implements(typ, iface) ==
    CASE iface = TypeFor("interface{}") -> TRUE
      [] iface = TypeFor("io.Reader") ->
            typ \in {TypeFor("io.ReadWriter"), PointerTo(TypeFor("bytes.Buffer"))}
      [] iface = TypeFor("io.ReadWriter") -> typ = PointerTo(TypeFor("bytes.Buffer"))
      [] OTHER -> FALSE

\* reflect.Type.AssignableTo
AssignableTo(impl, target) ==
    \/ impl = target
    \/ Kind(target) = "Interface" /\ Implements(impl, target)

\* The Lifetime values passed to the registration calls: the three defined
\* ones, the zero value and the value the tests use as undefined.
Lifetimes == {0, Transient, Scoped, Singleton, 13}

knownLifetimesAndThirteen == {Transient, Scoped, Singleton, 13}

knownLifetimes == {Transient, Scoped, Singleton}

----------------------------------------------------------------------------
(* The errors of the registration calls. *)

NonConcreteImplementation(impl) == [kind |-> "NonConcreteImplementation", Type |-> impl]

InvalidImplementation(target, impl) ==
    [kind |-> "InvalidImplementation", Target |-> target, Type |-> impl]

UndefinedLifetime(lifetime) == [kind |-> "UndefinedLifetime", Value |-> lifetime]

UnsharableType(impl, lifetime) ==
    [kind |-> "UnsharableType", Type |-> impl, Lifetime |-> lifetime]

NoDefaultFactory(typ) == [kind |-> "NoDefaultFactory", Type |-> typ]

ErrNilFactory == [kind |-> "ErrNilFactory", Type |-> "-"]

\* errors.Is(err, ErrNoDefaultFactory)
IsErrNoDefaultFactory(err) == err.kind = "NoDefaultFactory"

----------------------------------------------------------------------------
(* Default factories: getDefaultFactory and getDefaultPointerFactory. *)

\* A nil Factory[Impl], a factory the caller wrote, and the default factory.
NilFactory == [kind |-> "nil", of |-> "-"]

UserFactory(impl) == [kind |-> "user", of |-> impl]

DefaultFactory(typ) == [kind |-> "default", of |-> typ]

RECURSIVE getDefaultFactory(_)

getDefaultPointerFactoryElemError(typ) ==
    LET elem == getDefaultFactory(Elem(typ)) IN
        IF elem.err # NoError
            THEN elem
            ELSE [factory |-> DefaultFactory(typ), err |-> NoError]

getDefaultPointerFactory(typ) ==
    LET elem == getDefaultFactory(Elem(typ)) IN
        IF IsErrNoDefaultFactory(elem.err)
            THEN [factory |-> NilFactory, err |-> NoDefaultFactory(typ)]
            ELSE IF elem.err # NoError
                THEN elem
                ELSE [factory |-> DefaultFactory(typ), err |-> NoError]

getDefaultFactory(typ) ==
    CASE Kind(typ) \in {"Bool", "Int", "Float64", "Array", "String", "Slice",
                        "Map", "Chan", "Struct"} ->
            [factory |-> DefaultFactory(typ), err |-> NoError]
      [] Kind(typ) = "Pointer" -> getDefaultPointerFactory(typ)
      [] OTHER -> [factory |-> NilFactory, err |-> NoDefaultFactory(typ)]

\* GetDefaultFactory[T]()
GetDefaultFactory(typ) == getDefaultFactory(typ)

----------------------------------------------------------------------------
(* The Registry.  A Registry value is a struct holding a Go map, which is a  *)
(* reference: the value is the map it refers to (an index of heap), or Nil   *)
(* for the nil map of Registry{}.                                            *)

\* Number of registration calls made in one behaviour.
MaxRegisterCalls == 2

\* The registrations of the map m refers to; a nil map reads as empty.
MapAt(h, m) == IF m = Nil THEN <<>> ELSE h[m]

\* `m[k] = v` on a Go map
Put(m, k, v) == [x \in DOMAIN m \cup {k} |-> IF x = k THEN v ELSE m[x]]

isConcrete(typ) == Kind(typ) # "Interface"

isSharableOrStruct(typ) == Kind(typ) \in {"Pointer", "Chan", "Struct"}

isSharable(typ) == Kind(typ) \in {"Pointer", "Chan"}

validateRegistrationTypes(target, impl) ==
    IF ~isConcrete(impl) THEN NonConcreteImplementation(impl)
    ELSE IF ~AssignableTo(impl, target) THEN InvalidImplementation(target, impl)
    ELSE NoError

validateLifetimeAnyType(impl, lifetime) ==
    IF lifetime \notin knownLifetimes THEN UndefinedLifetime(lifetime) ELSE NoError

validateLifetimeAnyValue(impl, lifetime) ==
    IF lifetime # Transient /\ ~isSharable(impl) THEN UnsharableType(impl, lifetime)
    ELSE NoError

validateLifetime(impl, lifetime) ==
    IF lifetime \notin knownLifetimes THEN UndefinedLifetime(lifetime)
    ELSE IF lifetime # Transient /\ ~isSharable(impl) THEN UnsharableType(impl, lifetime)
    ELSE NoError

\* addRegistration: a nil map is replaced by a new one in the callee's copy of
\* the Registry; a map that exists is written in place.
addRegistrationKeepFirst(h, registry, target, registration) ==
    IF registry = Nil
        THEN [heap |-> Append(h, Put(<<>>, target, registration)),
              registry |-> Len(h) + 1, err |-> NoError]
        ELSE [heap |-> [h EXCEPT ![registry] =
                            IF target \in DOMAIN @ THEN @ ELSE Put(@, target, registration)],
              registry |-> registry, err |-> NoError]

addRegistration(h, registry, target, registration) ==
    IF registry = Nil
        THEN [heap |-> Append(h, Put(<<>>, target, registration)),
              registry |-> Len(h) + 1, err |-> NoError]
        ELSE [heap |-> [h EXCEPT ![registry] = Put(@, target, registration)],
              registry |-> registry, err |-> NoError]

\* `return registry, err`
RejectedWithEmptyRegistry(h, registry, err) == [heap |-> h, registry |-> Nil, err |-> err]

Rejected(h, registry, err) == [heap |-> h, registry |-> registry, err |-> err]

\* RegisterFactory: validateRegistrationTypes, validateLifetime, the nil check
\* of the factory, addRegistration.
RegisterFactoryNilCheckFirst(h, registry, target, impl, lifetime, factory) ==
    IF factory = NilFactory
        THEN Rejected(h, registry, ErrNilFactory)
    ELSE IF validateRegistrationTypes(target, impl) # NoError
        THEN Rejected(h, registry, validateRegistrationTypes(target, impl))
    ELSE IF validateLifetime(impl, lifetime) # NoError
        THEN Rejected(h, registry, validateLifetime(impl, lifetime))
    ELSE addRegistration(h, registry, target,
                         [lifetime |-> lifetime, factory |-> factory])

RegisterFactory(h, registry, target, impl, lifetime, factory) ==
    IF validateRegistrationTypes(target, impl) # NoError
        THEN Rejected(h, registry, validateRegistrationTypes(target, impl))
    ELSE IF validateLifetime(impl, lifetime) # NoError
        THEN Rejected(h, registry, validateLifetime(impl, lifetime))
    ELSE IF factory = NilFactory
        THEN Rejected(h, registry, ErrNilFactory)
    ELSE addRegistration(h, registry, target,
                         [lifetime |-> lifetime, factory |-> factory])

RegisterType(h, registry, target, impl, lifetime) ==
    IF GetDefaultFactory(impl).err # NoError
        THEN Rejected(h, registry, GetDefaultFactory(impl).err)
        ELSE RegisterFactory(h, registry, target, impl, lifetime,
                             GetDefaultFactory(impl).factory)

\* The value of providerMap while no RootProvider has been built from a
\* Registry of the behaviour.
NotBuilt == -1

\* maps.Clone: a nil map is cloned to nil.
MapsCloneShared(h, m) == [heap |-> h, map |-> m]

MapsClone(h, m) ==
    IF m = Nil THEN [heap |-> h, map |-> Nil]
               ELSE [heap |-> Append(h, h[m]), map |-> Len(h) + 1]

----------------------------------------------------------------------------
(* The typed facade Resolve[T] over a Resolver.  The Resolver is the         *)
(* mockResolver of the tests: it records the types it is asked for and       *)
(* returns what it was configured to return.                                 *)

ErrNilResolver == [kind |-> "ErrNilResolver", Type |-> "-"]

\* resolverError{wrapped: err}: errors.Is(ErrResolverError), Unwrap() = err
resolverErrorWithoutCause(err) == [kind |-> "resolverError", wrapped |-> NoError]

resolverError(err) == [kind |-> "resolverError", wrapped |-> err]

\* resolverError.Is: errors.Is(err, ErrResolverError)
IsErrResolverError(err) == err.kind = "resolverError"

\* resolverError.Unwrap
Unwrap(err) == err.wrapped

InvalidResolution(requested, returned) ==
    [kind |-> "InvalidResolution", Requested |-> requested, Returned |-> returned]

\* The error a Resolver returns.
ExpectedError == [kind |-> "expected error", Type |-> "-"]

\* The types T the facade is instantiated with.
FacadeTypes == {TypeFor(base) : base \in BaseTypes}

\* The values a Resolver returns: a nil `any`, or a value of a concrete type.
NilType == [ptr |-> 0, base |-> "nil"]

NilValue == [type |-> NilType, zero |-> TRUE]

ValueOf(typ) == [type |-> typ, zero |-> FALSE]

ResolvedValues ==
    {NilValue} \cup {ValueOf(typ) : typ \in {TypeFor("struct{}"), TypeFor("string"),
                                             PointerTo(TypeFor("struct{}")),
                                             PointerTo(TypeFor("bytes.Buffer"))}}

\* reflect.TypeOf(v): nil for a nil `any`.
TypeOf(v) == v.type

\* `var zero T`: nil for an interface type.
Zero(typ) == IF Kind(typ) = "Interface" THEN NilValue ELSE [type |-> typ, zero |-> TRUE]

\* The type assertion `resolved.(T)`: false for a nil `any`.
TypeAssertion(v, typ) == v # NilValue /\ AssignableTo(v.type, typ)

\* mockResolver.Resolve
mockResolve(m, typ) ==
    [mock |-> [requestedTypes |-> Append(m.requestedTypes, typ),
               returnValues |-> Tail(m.returnValues)],
     v |-> Head(m.returnValues).v,
     err |-> Head(m.returnValues).err]

\* `resolver == nil`
IsNilResolverNever(resolver) == FALSE

IsNilResolver(resolver) == resolver = Nil

\* Resolve[T](resolver), with m the state of the mockResolver.
ResolveT(typ, resolver, m) ==
    IF IsNilResolver(resolver)
        THEN [mock |-> m, val |-> Zero(typ), err |-> ErrNilResolver]
    ELSE LET r == mockResolve(m, typ) IN
        IF r.err # NoError
            THEN [mock |-> r.mock, val |-> Zero(typ), err |-> resolverError(r.err)]
        ELSE IF ~TypeAssertion(r.v, typ)
            THEN [mock |-> r.mock, val |-> Zero(typ),
                  err |-> InvalidResolution(typ, TypeOf(r.v))]
        ELSE [mock |-> r.mock, val |-> r.v, err |-> NoError]

\* The facade has not been called.
NotCalled ==
    [T |-> NilType, resolver |-> Nil, returns |-> [v |-> NilValue, err |-> NoError]]

NotReturned == [val |-> NilValue, err |-> [kind |-> "not returned", Type |-> "-"]]

FacadeNotUsed ==
    /\ mock = [requestedTypes |-> <<>>, returnValues |-> <<>>]
    /\ facadeCall = NotCalled
    /\ facadeResult = NotReturned

----------------------------------------------------------------------------
(* The factories that getDefaultFactory returns, when they are invoked.      *)
(* Values that are references (maps, channels, pointers) refer to objects    *)
(* of allocs, the memory allocated so far.                                   *)

\* Number of times a default factory is invoked in one behaviour.
MaxInvocations == 2

\* The struct types of the tests: the fields in declaration order.
StructFields(base) ==
    CASE base = "widget" ->
            <<[name |-> "X", exported |-> TRUE, type |-> TypeFor("int")],
              [name |-> "y", exported |-> FALSE, type |-> TypeFor("float64")]>>
      [] base = "gadget" ->
            <<[name |-> "Names", exported |-> TRUE, type |-> TypeFor("map[int]string")],
              [name |-> "counts", exported |-> FALSE, type |-> TypeFor("map[string]int")]>>
      [] base = "thing" ->
            <<[name |-> "Widget", exported |-> TRUE, type |-> TypeFor("widget")],
              [name |-> "Gadget", exported |-> TRUE,
               type |-> PointerTo(TypeFor("gadget"))]>>
      [] base = "unexportedFieldsOnly" ->
            <<[name |-> "widget", exported |-> FALSE, type |-> TypeFor("widget")],
              [name |-> "gadget", exported |-> FALSE,
               type |-> PointerTo(TypeFor("gadget"))]>>
      [] base = "recursiveStruct" ->
            <<[name |-> "Thing", exported |-> TRUE, type |-> TypeFor("thing")]>>
      [] OTHER -> <<>>

\* reflect.StructField.IsExported
IsExportedAlways(field) == TRUE

IsExported(field) == field.exported

\* A value of a map, channel or pointer type: a reference to object a.
Reference(typ, a) == [type |-> typ, ref |-> a]

\* A value of a struct type.
StructValue(typ, fields) == [type |-> typ, fields |-> fields]

\* reflect.New(typ).Elem() of a struct type: every field has its zero value.
ZeroStruct(typ) ==
    LET fields == StructFields(typ.base) IN
        StructValue(typ, [n \in {fields[i].name : i \in 1..Len(fields)} |->
            Zero(fields[CHOOSE i \in 1..Len(fields) : fields[i].name = n].type)])

\* The objects of allocs.
MapObject == [kind |-> "map", val |-> NilValue, size |-> 0]

ChanObject(capacity) == [kind |-> "chan", val |-> NilValue, size |-> capacity]

VarObject(v) == [kind |-> "var", val |-> v, size |-> 0]

\* reflect.MakeMap(typ): a new, empty map.
MakeMap(h, typ) == [heap |-> Append(h, MapObject), val |-> Reference(typ, Len(h) + 1)]

\* reflect.MakeChan(typ, 0)
MakeChanBuffered(h, typ) ==
    [heap |-> Append(h, ChanObject(1)), val |-> Reference(typ, Len(h) + 1)]

MakeChan(h, typ) ==
    [heap |-> Append(h, ChanObject(0)), val |-> Reference(typ, Len(h) + 1)]

\* `pVal := reflect.New(typ.Elem()); pVal.Elem().Set(reflect.ValueOf(v))`
NewZero(h, typ, v) ==
    [heap |-> Append(h, VarObject(Zero(Elem(typ)))), val |-> Reference(typ, Len(h) + 1)]

New(h, typ, v) ==
    [heap |-> Append(h, VarObject(v)), val |-> Reference(typ, Len(h) + 1)]

\* testResolver.Resolve: r is the resolutions map.
UnexpectedCall(typ) == [kind |-> "unexpected call", Type |-> typ]

testResolve(r, typ) ==
    IF typ \in DOMAIN r THEN r[typ] ELSE [val |-> NilValue, err |-> UnexpectedCall(typ)]

\* The check of a resolved field value in getDefaultStructFactory.
fieldErrorIgnoringType(field, res) ==
    IF res.err # NoError THEN resolverError(res.err) ELSE NoError

fieldError(field, res) ==
    IF res.err # NoError
        THEN resolverError(res.err)
    ELSE IF TypeOf(res.val) = NilType \/ ~AssignableTo(TypeOf(res.val), field.type)
        THEN InvalidResolution(field.type, TypeOf(res.val))
    ELSE NoError

\* The loop of the factory of getDefaultStructFactory from field i on: val is
\* the struct so far and calls the Resolve calls made so far.
RECURSIVE initFields(_, _, _, _, _)

initFields(typ, i, val, calls, r) ==
    LET fields == StructFields(typ.base) IN
        IF i > Len(fields)
            THEN [val |-> val, err |-> NoError, calls |-> calls]
        ELSE IF ~IsExported(fields[i])
            THEN initFields(typ, i + 1, val, calls, r)
        ELSE LET res == testResolve(r, fields[i].type)
                 err == fieldError(fields[i], res)
             IN  IF err # NoError
                    THEN [val |-> NilValue, err |-> err,
                          calls |-> Append(calls, fields[i].type)]
                    ELSE initFields(typ, i + 1,
                            StructValue(typ, [val.fields EXCEPT ![fields[i].name] = res.val]),
                            Append(calls, fields[i].type), r)

\* The factory getDefaultFactory(typ) returns, called with resolver r while
\* the allocated memory is h: the value and error it returns, the memory
\* afterwards, and the Resolve calls it made.
RECURSIVE defaultFactory(_, _, _)

defaultFactory(typ, r, h) ==
    CASE Kind(typ) \in {"Bool", "Int", "Float64", "Array", "String", "Slice"} ->
            [val |-> Zero(typ), err |-> NoError, heap |-> h, calls |-> <<>>]
      [] Kind(typ) = "Map" ->
            [val |-> MakeMap(h, typ).val, err |-> NoError,
             heap |-> MakeMap(h, typ).heap, calls |-> <<>>]
      [] Kind(typ) = "Chan" ->
            [val |-> MakeChan(h, typ).val, err |-> NoError,
             heap |-> MakeChan(h, typ).heap, calls |-> <<>>]
      [] Kind(typ) = "Struct" ->
            LET s == initFields(typ, 1, ZeroStruct(typ), <<>>, r) IN
                [val |-> s.val, err |-> s.err, heap |-> h, calls |-> s.calls]
      [] Kind(typ) = "Pointer" ->
            LET elem == defaultFactory(Elem(typ), r, h) IN
                IF elem.err # NoError
                    THEN [val |-> NilValue, err |-> elem.err, heap |-> elem.heap,
                          calls |-> elem.calls]
                    ELSE [val |-> New(elem.heap, typ, elem.val).val, err |-> NoError,
                          heap |-> New(elem.heap, typ, elem.val).heap,
                          calls |-> elem.calls]

\* No default factory has been derived.
FactoryNotUsed ==
    /\ factoryCall = [T |-> NilType, resolver |-> <<>>]
    /\ allocs = <<>>
    /\ factoryResults = <<>>

----------------------------------------------------------------------------
\* No registration call has been made.
NoCall ==
    [fn |-> "none", in |-> Nil, target |-> "-", impl |-> "-", lifetime |-> 0,
     factory |-> NilFactory, out |-> Nil, err |-> NoError, before |-> <<>>,
     n |-> 0]

\* The Registry is not part of the behaviour: the RootProvider exists.
RegistryNotUsed ==
    /\ heap = <<>>
    /\ held = {Nil}
    /\ providerMap = NotBuilt
    /\ pending = NoCall
    /\ lastCall = NoCall

----------------------------------------------------------------------------
\* Scope.Close has not been called.
CloseNotCalled ==
    /\ ctxDone = FALSE
    /\ closePc = "idle"
    /\ closeScope = Root
    /\ tasks = <<>>
    /\ wg = 0
    /\ wgDone = FALSE
    /\ closeErrorsCh = <<>>
    /\ closeErrors = <<>>
    /\ closeResult = <<>>
    /\ closeCalls = 0

\* The history with one more returned call.
Record(r) == history (+) SetToBag({r})

Init ==
    /\ registrations =
          [t \in {"TTransient", "TScoped", "TSingleton"} |->
              [lifetime |-> CASE t = "TTransient" -> Transient
                              [] t = "TScoped" -> Scoped
                              [] t = "TSingleton" -> Singleton]]
    /\ scopes = <<>>
    /\ instances = [c \in CacheIds |-> <<>>]
    /\ mu = [c \in CacheIds |-> 0]
    /\ callers = [p \in Callers |-> <<>>]
    /\ history = EmptyBag
    /\ nextInstance = 1
    /\ CloseNotCalled
    /\ RegistryNotUsed
    /\ FacadeNotUsed
    /\ FactoryNotUsed

\* RootProvider.NewScope, `root: provider`: the Scope gets a copy of the
\* RootProvider value, and the copy holds the same registrations map.
RootOfScopeWithoutRegistrations(provider) == <<>>

RootOfScope(provider) == provider

\* RootProvider.NewScope / Scope.NewScope, called on context ctx.
NewScope(ctx) ==
    /\ Len(scopes) < MaxScopes
    /\ scopes' = Append(scopes, ctx)
    /\ registrations' = RootOfScope(registrations)
    /\ UNCHANGED <<instances, mu, callers, history, nextInstance>>
    /\ UNCHANGED <<closeVars, registryVars, facadeVars, factoryVars>>

\* Goroutine p calls Resolve(typ) on context ctx.
Resolve(p, ctx, typ) ==
    /\ callers[p] = <<>>
    /\ CallsMade < MaxCalls
    /\ LET d == Dispatch(ctx, typ)
           f == [ctx |-> ctx, typ |-> typ, pc |-> d.pc, cache |-> d.cache,
                 resolver |-> d.resolver]
       IN  IF d.pc = "done"
           THEN /\ history' = Record(Returned(f, Nil, d.err, 0))
                /\ UNCHANGED callers
           ELSE /\ callers' = [callers EXCEPT ![p] = Append(@, f)]
                /\ UNCHANGED history
    /\ UNCHANGED <<registrations, scopes, instances, mu, nextInstance>>
    /\ UNCHANGED <<closeVars, registryVars, facadeVars, factoryVars>>

\* instanceMap.resolve, fast path: m.get(typ) under the read lock.
Get(p) ==
    /\ callers[p] # <<>>
    /\ LET f == Top(p) IN
        /\ f.pc = "get"
        /\ mu[f.cache] = 0
        /\ IF Has(f.cache, f.typ)
           THEN /\ history' = Record(Returned(f, instances[f.cache][f.typ], NoError, 0))
                /\ callers' = Pop(p)
           ELSE /\ callers' = SetPc(p, "lock")
                /\ UNCHANGED history
    /\ UNCHANGED <<registrations, scopes, instances, mu, nextInstance>>
    /\ UNCHANGED <<closeVars, registryVars, facadeVars, factoryVars>>

\* instanceMap.resolve: m.mu.Lock() and the re-check under the write lock; on
\* a hit the deferred Unlock runs and the call returns, on a miss the lock is
\* held for the factory call.
Lock(p) ==
    /\ callers[p] # <<>>
    /\ LET f == Top(p) IN
        /\ f.pc = "lock"
        /\ mu[f.cache] = 0
        /\ IF Recheck(f.cache, f.typ)
           THEN /\ history' = Record(Returned([f EXCEPT !.pc = "check"],
                                              instances[f.cache][f.typ], NoError, 0))
                /\ callers' = Pop(p)
                /\ UNCHANGED mu
           ELSE /\ callers' = SetPc(p, "build")
                /\ mu' = [mu EXCEPT ![f.cache] = p]
                /\ UNCHANGED history
    /\ UNCHANGED <<registrations, scopes, instances, nextInstance>>
    /\ UNCHANGED <<closeVars, registryVars, facadeVars, factoryVars>>

\* instanceMap.resolve: factory(resolver), save, deferred Unlock, return.
Build(p) ==
    /\ callers[p] # <<>>
    /\ LET f == Top(p) IN
        /\ f.pc = "build"
        /\ \E ok \in BOOLEAN :
            /\ instances' = [instances EXCEPT
                               ![f.cache] = Store(@, f.typ, FactoryValue(ok), ok)]
            /\ history' = Record(Returned(f, FactoryValue(ok), FactoryErr(f.typ, ok), 1))
            /\ nextInstance' = IF ok THEN nextInstance + 1 ELSE nextInstance
        /\ mu' = [mu EXCEPT ![f.cache] = 0]
        /\ callers' = Pop(p)
    /\ UNCHANGED <<registrations, scopes>>
    /\ UNCHANGED <<closeVars, registryVars, facadeVars, factoryVars>>

\* RootProvider.Resolve, Transient: `return registration.factory(provider)`
BuildTransient(p) ==
    /\ callers[p] # <<>>
    /\ LET f == Top(p) IN
        /\ f.pc = "transient"
        /\ \E ok \in BOOLEAN :
            /\ history' = Record(Returned(f, FactoryValue(ok), FactoryErr(f.typ, ok), 1))
            /\ nextInstance' = IF ok THEN nextInstance + 1 ELSE nextInstance
        /\ callers' = Pop(p)
    /\ UNCHANGED <<registrations, scopes, instances, mu>>
    /\ UNCHANGED <<closeVars, registryVars, facadeVars, factoryVars>>

Next ==
    \/ \E ctx \in Contexts : NewScope(ctx)
    \/ \E p \in Callers, ctx \in Contexts, typ \in Types : Resolve(p, ctx, typ)
    \/ \E p \in Callers : Get(p)
    \/ \E p \in Callers : Lock(p)
    \/ \E p \in Callers : Build(p)
    \/ \E p \in Callers : BuildTransient(p)

Spec == Init /\ [][Next]_vars

----------------------------------------------------------------------------
(* Scope.Close.                                                              *)
(*                                                                           *)
(* The values of a scope's cache are closed by one goroutine each; a waiter  *)
(* goroutine closes wgDone when the WaitGroup reaches zero; the caller loops *)
(* on a select over ctx.Done(), wgDone and closeErrorsCh.                    *)

\* Scoped types whose values have a close capability, and one that has none.
CloseTypes == {"TContextCloser", "TCloser", "TPlain"}

\* A Singleton type whose value has the plain close capability.
SingletonCloseTypes == {"TSingletonCloser"}

\* `value.(ContextCloser)` and `value.(Closer)` on a value of type typ. Both
\* interfaces name the method Close, so no type implements both.
ImplementsContextCloser(typ) == typ = "TContextCloser"

ImplementsCloser(typ) == typ \in {"TCloser", "TSingletonCloser"}

\* The type switch of Scope.Close on a cached value of type typ:
\* ContextCloser is tried first, then Closer.
CapabilityContextCloserOnly(typ) ==
    IF ImplementsContextCloser(typ) THEN "ContextCloser" ELSE "none"

Capability(typ) ==
    CASE ImplementsContextCloser(typ) -> "ContextCloser"
      [] ImplementsCloser(typ) -> "Closer"
      [] OTHER -> "none"

\* The error the Close method of cached value v returns when it fails.
CloseError(v) == [kind |-> "CloseError", Type |-> v]

\* instanceMap.values
Values(cache) == {instances[cache][t] : t \in DOMAIN instances[cache]}

\* The type under which value v is cached.
TypeOfValue(cache, v) ==
    CHOOSE t \in DOMAIN instances[cache] : instances[cache][t] = v

\* contextClosers and closers: the values that get a close task.
CloseableOnFirstCloseOnly(cache) ==
    {v \in Values(cache) : Capability(TypeOfValue(cache, v)) # "none" /\ closeCalls = 0}

Closeable(cache) ==
    {v \in Values(cache) : Capability(TypeOfValue(cache, v)) # "none"}

\* The capacity of closeErrorsCh: `make(chan error, n)`.
ChanCapUnbuffered(n) == 0

ChanCap(n) == n

\* The cases of the select statement that are ready.
SelectCtxDoneNever == FALSE

SelectCtxDone == ctxDone

SelectWgDoneNever == FALSE

SelectWgDone == wgDone

SelectReceive == closeErrorsCh # <<>>

\* `if err != nil { closeErrors = append(closeErrors, err) }`
AppendAll(errs, err) == Append(errs, err)

Collect(errs, err) ==
    IF err # NoError THEN Append(errs, err) ELSE errs

\* `case <-ctx.Done(): return closeErrors`
ReturnWithCtxErr(errs) == Append(errs, [kind |-> "ctx.Err", Type |-> "-"])

ReturnOnCtxDone(errs) == errs

\* The ranks that order the values allocated in a cache.
Rank(typ) ==
    CASE typ = "TContextCloser" -> 1
      [] typ = "TCloser" -> 2
      [] OTHER -> 3

\* A cache holding one value for each type of D, allocated after `base` values.
CacheOf(D, base) ==
    [t \in D |-> base + Cardinality({u \in D : Rank(u) <= Rank(t)})]

\* A state the resolution engine reaches: the types of CloseTypes are
\* registered as Scoped and those of SingletonCloseTypes as Singleton, Scope 1
\* was created by the RootProvider and Scope 2 by Scope 1, each scope has
\* resolved some of the Scoped types, and Scope 1 some of the Singleton ones.
InitClose ==
    /\ registrations = [t \in CloseTypes \cup SingletonCloseTypes |->
                          [lifetime |-> IF t \in CloseTypes THEN Scoped ELSE Singleton]]
    /\ scopes = <<Root, 1>>
    /\ \E D1 \in SUBSET CloseTypes, D2 \in SUBSET CloseTypes,
          D0 \in SUBSET SingletonCloseTypes :
        /\ instances = [c \in CacheIds |->
                          CASE c = 1 -> CacheOf(D1, 0)
                            [] c = 2 -> CacheOf(D2, Cardinality(D1))
                            [] c = Root -> CacheOf(D0, Cardinality(D1) + Cardinality(D2))
                            [] OTHER -> <<>>]
        /\ nextInstance = Cardinality(D1) + Cardinality(D2) + Cardinality(D0) + 1
    /\ history = SetToBag(
          {[ctx |-> IF c = Root THEN 1 ELSE c, typ |-> t, val |-> instances[c][t],
            err |-> NoError, cache |-> c, invoked |-> 1, via |-> "build"] :
              <<c, t>> \in {x \in {Root, 1, 2} \X (CloseTypes \cup SingletonCloseTypes) :
                              x[2] \in DOMAIN instances[x[1]]}})
    /\ mu = [c \in CacheIds |-> 0]
    /\ callers = [p \in Callers |-> <<>>]
    /\ CloseNotCalled
    /\ RegistryNotUsed
    /\ FacadeNotUsed
    /\ FactoryNotUsed

\* The context given to Close is cancelled or its deadline passes.
Cancel ==
    /\ ~ctxDone
    /\ ctxDone' = TRUE
    /\ UNCHANGED <<closePc, closeScope, tasks, wg, wgDone, closeErrorsCh,
                   closeErrors, closeResult>>
    /\ UNCHANGED closeCalls
    /\ UNCHANGED <<resolveVars, registryVars, facadeVars, factoryVars>>

\* Scope.Close up to the select loop: the values are read under the read
\* lock, split by capability, and one goroutine per closeable value and the
\* waiter goroutine are started.
CloseStart(scope) ==
    /\ closePc = "idle"
    /\ mu[ScopedValuesOf(scope)] = 0
    /\ LET closeable == Closeable(ScopedValuesOf(scope)) IN
        /\ tasks = <<>>
        /\ tasks' = [v \in closeable |->
                        [capability |-> Capability(TypeOfValue(ScopedValuesOf(scope), v)),
                         pc |-> "close", result |-> NoError, arrival |-> 0]]
        /\ wg' = Cardinality(closeable)
    /\ closeScope' = scope
    /\ closePc' = "select"
    /\ closeErrorsCh' = <<>>
    /\ closeErrors' = <<>>
    /\ closeCalls' = closeCalls + 1
    /\ UNCHANGED <<ctxDone, wgDone, closeResult>>
    /\ UNCHANGED <<resolveVars, registryVars, facadeVars, factoryVars>>

\* The number of results sent on closeErrorsCh so far.
Arrived == Cardinality({v \in DOMAIN tasks : tasks[v].pc # "close"})

\* A close goroutine: the value's Close method returns err (nil or an error)
\* and the result is sent on closeErrorsCh.
TaskSend(v, err) ==
    /\ v \in DOMAIN tasks
    /\ tasks[v].pc = "close"
    /\ Len(closeErrorsCh) < ChanCap(Cardinality(DOMAIN tasks))
    /\ closeErrorsCh' = Append(closeErrorsCh, err)
    /\ tasks' = [tasks EXCEPT ![v].pc = "sent", ![v].result = err,
                              ![v].arrival = Arrived + 1]
    /\ UNCHANGED <<ctxDone, closePc, closeScope, wg, wgDone, closeErrors, closeResult>>
    /\ UNCHANGED closeCalls
    /\ UNCHANGED <<resolveVars, registryVars, facadeVars, factoryVars>>

\* A close goroutine: the deferred wg.Done().
TaskDone(v) ==
    /\ v \in DOMAIN tasks
    /\ tasks[v].pc = "sent"
    /\ tasks' = [tasks EXCEPT ![v].pc = "done"]
    /\ wg' = wg - 1
    /\ UNCHANGED <<ctxDone, closePc, closeScope, wgDone, closeErrorsCh,
                   closeErrors, closeResult>>
    /\ UNCHANGED closeCalls
    /\ UNCHANGED <<resolveVars, registryVars, facadeVars, factoryVars>>

\* The waiter goroutine: wg.Wait() returns and the deferred close(wgDone) runs.
Waiter ==
    /\ closePc # "idle"
    /\ ~wgDone
    /\ wg = 0
    /\ wgDone' = TRUE
    /\ UNCHANGED <<ctxDone, closePc, closeScope, tasks, wg, closeErrorsCh,
                   closeErrors, closeResult>>
    /\ UNCHANGED closeCalls
    /\ UNCHANGED <<resolveVars, registryVars, facadeVars, factoryVars>>

\* select: `case <-ctx.Done(): return closeErrors`
SelectCtx ==
    /\ closePc = "select"
    /\ SelectCtxDone
    /\ closePc' = "returned"
    /\ closeResult' = ReturnOnCtxDone(closeErrors)
    /\ UNCHANGED <<ctxDone, closeScope, tasks, wg, wgDone, closeErrorsCh, closeErrors>>
    /\ UNCHANGED closeCalls
    /\ UNCHANGED <<resolveVars, registryVars, facadeVars, factoryVars>>

\* select: `case <-wgDone: return closeErrors`
SelectWg ==
    /\ closePc = "select"
    /\ SelectWgDone
    /\ closePc' = "returned"
    /\ closeResult' = closeErrors
    /\ UNCHANGED <<ctxDone, closeScope, tasks, wg, wgDone, closeErrorsCh, closeErrors>>
    /\ UNCHANGED closeCalls
    /\ UNCHANGED <<resolveVars, registryVars, facadeVars, factoryVars>>

\* select: `case err := <-closeErrorsCh`
SelectErr ==
    /\ closePc = "select"
    /\ SelectReceive
    /\ closeErrors' = Collect(closeErrors, Head(closeErrorsCh))
    /\ closeErrorsCh' = Tail(closeErrorsCh)
    /\ UNCHANGED <<ctxDone, closePc, closeScope, tasks, wg, wgDone, closeResult>>
    /\ UNCHANGED closeCalls
    /\ UNCHANGED <<resolveVars, registryVars, facadeVars, factoryVars>>

\* One pass of the select loop of Scope.Close: one of the ready cases runs.
Select == SelectCtx \/ SelectWg \/ SelectErr

NextClose ==
    \/ Cancel
    \/ \E scope \in ScopeIds : CloseStart(scope)
    \/ \E v \in DOMAIN tasks : \E err \in {NoError, CloseError(v)} : TaskSend(v, err)
    \/ \E v \in DOMAIN tasks : TaskDone(v)
    \/ Waiter
    \/ SelectCtx
    \/ SelectWg
    \/ SelectErr

SpecClose == InitClose /\ [][NextClose]_vars

\* The Go scheduler runs every goroutine that can take a step: the select of
\* the caller, the waiter, and the deferred wg.Done() of a close goroutine.
\* How long a value's Close method takes, and whether the context is ever
\* cancelled, is up to the values and to the caller.
FairSpecClose ==
    /\ SpecClose
    /\ WF_vars(Select)
    /\ WF_vars(Waiter)
    /\ \A v \in 1..(2 * Cardinality(CloseTypes)) : WF_vars(TaskDone(v))

\* Calls of Scope.Close made on one scope, one after the other.
MaxCloseCalls == 2

\* A call of Scope.Close has returned, its goroutines have ended, and no
\* Resolve call is in progress.
CloseEnded ==
    /\ closePc = "returned"
    /\ wgDone
    /\ \A v \in DOMAIN tasks : tasks[v].pc = "done"
    /\ \A p \in Callers : callers[p] = <<>>

\* Scope.Close is called again on the scope that was closed, after the
\* earlier call of Close has ended: the values are read from
\* scope.scopedValues again, and a new channel, WaitGroup and set of
\* goroutines are made. The context is the earlier one or a new one.
CloseAgain ==
    /\ CloseEnded
    /\ closeCalls < MaxCloseCalls
    /\ mu[ScopedValuesOf(closeScope)] = 0
    /\ LET closeable == Closeable(ScopedValuesOf(closeScope)) IN
        /\ tasks' = [v \in closeable |->
                        [capability |-> Capability(TypeOfValue(ScopedValuesOf(closeScope), v)),
                         pc |-> "close", result |-> NoError, arrival |-> 0]]
        /\ wg' = Cardinality(closeable)
    /\ closePc' = "select"
    /\ wgDone' = FALSE
    /\ closeErrorsCh' = <<>>
    /\ closeErrors' = <<>>
    /\ closeCalls' = closeCalls + 1
    /\ ctxDone' \in {FALSE, ctxDone}
    /\ UNCHANGED <<closeScope, closeResult>>
    /\ UNCHANGED <<resolveVars, registryVars, facadeVars, factoryVars>>

\* Resolve is called on a scope or on the RootProvider after a call of
\* Scope.Close has ended, by the first goroutine: the calls are made one
\* after the other.
ResolveAfterClose(p, ctx, typ) ==
    /\ CloseEnded
    /\ \A q \in Callers : p <= q
    /\ Resolve(p, ctx, typ)

\* Close calls on the scopes, and Resolve calls between and after them.
NextReclose ==
    \/ NextClose
    \/ CloseAgain
    \/ \E p \in Callers, ctx \in Contexts, typ \in DOMAIN registrations :
          ResolveAfterClose(p, ctx, typ)
    \/ \E p \in Callers : Get(p)
    \/ \E p \in Callers : Lock(p)
    \/ \E p \in Callers : Build(p)

\* The states of InitClose in which Scope 2 has resolved nothing yet.
InitReclose ==
    /\ InitClose
    /\ instances[2] = <<>>

SpecReclose == InitReclose /\ [][NextReclose]_vars

----------------------------------------------------------------------------
(* The registration calls and BuildRootProvider as steps of a program that   *)
(* holds Registry values.                                                    *)

\* RegisterType[Target, Impl](registry, lifetime) or
\* RegisterFactory[Target, Impl](registry, lifetime, factory) is called on a
\* Registry value the program holds and returns (out, err).
Register(fn, registry, target, impl, lifetime, factory) ==
    /\ registry \in held
    /\ lastCall.n < MaxRegisterCalls
    /\ LET res == IF fn = "RegisterType"
                      THEN RegisterType(heap, registry, target, impl, lifetime)
                      ELSE RegisterFactory(heap, registry, target, impl, lifetime, factory)
       IN
        /\ heap' = res.heap
        /\ held' = held \cup {res.registry}
        /\ lastCall' = [fn |-> fn, in |-> registry, target |-> target, impl |-> impl,
                        lifetime |-> lifetime, factory |-> factory,
                        out |-> res.registry, err |-> res.err, before |-> heap,
                        n |-> lastCall.n + 1]
        /\ registrations' = IF providerMap = NotBuilt
                                THEN registrations
                                ELSE MapAt(res.heap, providerMap)
    /\ UNCHANGED <<providerMap, pending>>
    /\ UNCHANGED <<scopes, instances, mu, callers, history, nextInstance>>
    /\ UNCHANGED <<closeVars, facadeVars, factoryVars>>

\* Registry.BuildRootProvider: the RootProvider gets a clone of the map and a
\* new, empty singleton cache.
BuildRootProvider(registry) ==
    /\ registry \in held
    /\ providerMap = NotBuilt
    /\ LET clone == MapsClone(heap, registry) IN
        /\ heap' = clone.heap
        /\ providerMap' = clone.map
        /\ registrations' = MapAt(clone.heap, clone.map)
    /\ UNCHANGED <<held, pending, lastCall>>
    /\ UNCHANGED <<scopes, instances, mu, callers, history, nextInstance>>
    /\ UNCHANGED <<closeVars, facadeVars, factoryVars>>

\* The program starts with Registry{} and no RootProvider.
RegistryEmpty ==
    /\ registrations = <<>>
    /\ scopes = <<>>
    /\ instances = [c \in CacheIds |-> <<>>]
    /\ mu = [c \in CacheIds |-> 0]
    /\ callers = [p \in Callers |-> <<>>]
    /\ history = EmptyBag
    /\ nextInstance = 1
    /\ CloseNotCalled
    /\ heap = <<>>
    /\ held = {Nil}
    /\ providerMap = NotBuilt
    /\ lastCall = NoCall

InitRegistry ==
    /\ FacadeNotUsed
    /\ FactoryNotUsed
    /\ RegistryEmpty
    /\ pending = NoCall

\* The targets, implementation types and lifetimes the program registers.
RegistryTargets == {TypeFor("io.Reader"), PointerTo(TypeFor("bytes.Buffer"))}

RegistryImpls == {PointerTo(TypeFor("bytes.Buffer")), TypeFor("io.ReadWriter")}

RegistryLifetimes == {Transient, Singleton, 13}

NextRegistry ==
    \/ \E registry \in held, target \in RegistryTargets, impl \in RegistryImpls,
          lifetime \in RegistryLifetimes :
            Register("RegisterType", registry, target, impl, lifetime, NilFactory)
    \/ \E registry \in held, target \in RegistryTargets, impl \in RegistryImpls,
          lifetime \in RegistryLifetimes :
        \E factory \in {NilFactory, UserFactory(impl)} :
            Register("RegisterFactory", registry, target, impl, lifetime, factory)
    \/ \E registry \in held : BuildRootProvider(registry)

SpecRegistry == InitRegistry /\ [][NextRegistry]_vars

----------------------------------------------------------------------------
(* One registration call on Registry{} for every combination of arguments:   *)
(* the validation of the two entry points as a function of its inputs.       *)

RegisterCalls ==
    [fn : {"RegisterType"}, target : ReflectTypes, impl : ReflectTypes,
     lifetime : Lifetimes, factory : {NilFactory}]
    \cup UNION {[fn : {"RegisterFactory"}, target : ReflectTypes, impl : {impl},
                 lifetime : Lifetimes, factory : {NilFactory, UserFactory(impl)}] :
                    impl \in ReflectTypes}

InitRegister ==
    /\ FacadeNotUsed
    /\ FactoryNotUsed
    /\ RegistryEmpty
    /\ \E call \in RegisterCalls :
        pending = [NoCall EXCEPT !.fn = call.fn, !.target = call.target,
                                 !.impl = call.impl, !.lifetime = call.lifetime,
                                 !.factory = call.factory]

RegisterTypePending ==
    /\ pending.fn = "RegisterType"
    /\ lastCall = NoCall
    /\ Register("RegisterType", Nil, pending.target, pending.impl, pending.lifetime,
                pending.factory)

RegisterFactoryPending ==
    /\ pending.fn = "RegisterFactory"
    /\ lastCall = NoCall
    /\ Register("RegisterFactory", Nil, pending.target, pending.impl, pending.lifetime,
                pending.factory)

NextRegister == RegisterTypePending \/ RegisterFactoryPending

SpecRegister == InitRegister /\ [][NextRegister]_vars

----------------------------------------------------------------------------
(* One call of Resolve[T] for every T, with a nil Resolver or with a         *)
(* mockResolver configured with one return value.                            *)

InitFacade ==
    /\ RegistryEmpty
    /\ pending = NoCall
    /\ FactoryNotUsed
    /\ facadeResult = NotReturned
    /\ \E typ \in FacadeTypes :
        \/ /\ \E v \in ResolvedValues :
                /\ facadeCall = [T |-> typ, resolver |-> Nil,
                                 returns |-> [v |-> v, err |-> NoError]]
                /\ mock = [requestedTypes |-> <<>>,
                           returnValues |-> <<facadeCall.returns>>]
        \/ /\ \E v \in ResolvedValues, err \in {NoError, ExpectedError} :
                /\ facadeCall = [T |-> typ, resolver |-> 1,
                                 returns |-> [v |-> v, err |-> err]]
                /\ mock = [requestedTypes |-> <<>>,
                           returnValues |-> <<facadeCall.returns>>]

FacadeResolve ==
    /\ facadeResult = NotReturned
    /\ LET res == ResolveT(facadeCall.T, facadeCall.resolver, mock) IN
        /\ mock' = res.mock
        /\ facadeResult' = [val |-> res.val, err |-> res.err]
    /\ UNCHANGED facadeCall
    /\ UNCHANGED <<resolveVars, closeVars, registryVars, factoryVars>>

NextFacade == FacadeResolve

SpecFacade == InitFacade /\ [][NextFacade]_vars

----------------------------------------------------------------------------
(* GetDefaultFactory[T]() for every type T of the tests, and the factory it  *)
(* returns invoked with a testResolver.                                      *)

FactoryBases ==
    {"bool", "int", "string", "[3]int", "[]int", "map[int]string", "chan int",
     "struct{}", "widget", "gadget", "thing", "unexportedFieldsOnly",
     "recursiveStruct", "uintptr", "func()", "unsafe.Pointer", "interface{}"}

FactoryTypes == [ptr : 0..MaxPtrDepth, base : FactoryBases]

\* The types of the exported fields of the struct types.
FieldTypes ==
    {TypeFor("int"), TypeFor("widget"), PointerTo(TypeFor("gadget")), TypeFor("thing")}

\* What a testResolver is set to return for a type: a value of that type, a
\* value of another type, a nil value, or an error.
Resolutions(typ) ==
    {[val |-> ValueOf(typ), err |-> NoError],
     [val |-> ValueOf(TypeFor("string")), err |-> NoError],
     [val |-> NilValue, err |-> NoError],
     [val |-> NilValue, err |-> ExpectedError]}

\* testResolver.resolutions
TestResolvers ==
    UNION {{r \in [D -> UNION {Resolutions(typ) : typ \in D}] :
                \A typ \in D : r[typ] \in Resolutions(typ)} : D \in SUBSET FieldTypes}

InitFactory ==
    /\ RegistryEmpty
    /\ pending = NoCall
    /\ FacadeNotUsed
    /\ allocs = <<>>
    /\ factoryResults = <<>>
    /\ \E typ \in FactoryTypes, r \in TestResolvers :
        factoryCall = [T |-> typ, resolver |-> r]

\* The factory GetDefaultFactory[T]() returned is called.
InvokeDefaultFactory ==
    /\ GetDefaultFactory(factoryCall.T).err = NoError
    /\ Len(factoryResults) < MaxInvocations
    /\ LET res == defaultFactory(factoryCall.T, factoryCall.resolver, allocs) IN
        /\ allocs' = res.heap
        /\ factoryResults' =
                Append(factoryResults, [val |-> res.val, err |-> res.err, calls |-> res.calls])
    /\ UNCHANGED factoryCall
    /\ UNCHANGED <<resolveVars, closeVars, registryVars, facadeVars>>

NextFactory == InvokeDefaultFactory

SpecFactory == InitFactory /\ [][NextFactory]_vars

----------------------------------------------------------------------------
(* Factories with dependencies.                                              *)
(*                                                                           *)
(* A registration made by RegisterType for a struct type has the default     *)
(* struct factory: it resolves every exported field through the Resolver it  *)
(* is given and returns the struct.  For a pointer to a struct type, which   *)
(* is what a Scoped or Singleton registration needs, it has the default      *)
(* pointer factory, which calls the struct factory with the same Resolver    *)
(* and returns a pointer to the struct.  The registrations below are such    *)
(* types; `deps` are the types of the exported fields of the struct.         *)
(*                                                                           *)
(* SpecDependencies is goroutines calling Resolve on the RootProvider and on *)
(* Scopes with the factory call of instanceMap.resolve and of the Transient  *)
(* branch taken one Resolve call of the factory at a time: the goroutine     *)
(* holds the write lock of the cache across those calls.  Spec has the       *)
(* callers that run concurrently; here a call starts when no other call is   *)
(* running.                                                                  *)

\* The types registered (a struct type when Transient, a pointer to a struct
\* type otherwise), with their lifetime and the struct's exported fields.
DependencyRegistrations ==
    [TTransient            |-> [lifetime |-> Transient, deps |-> <<>>],
     TScoped               |-> [lifetime |-> Scoped,    deps |-> <<>>],
     TSingleton            |-> [lifetime |-> Singleton, deps |-> <<>>],
     TTransientOfScoped    |-> [lifetime |-> Transient, deps |-> <<"TScoped">>],
     TSingletonOfSingleton |-> [lifetime |-> Singleton, deps |-> <<"TSingleton">>],
     TSingletonOfTransient |-> [lifetime |-> Singleton, deps |-> <<"TTransient">>],
     TSingletonOfScoped    |-> [lifetime |-> Singleton, deps |-> <<"TScoped">>],
     TScopedOfScoped       |-> [lifetime |-> Scoped,    deps |-> <<"TScoped">>],
     TScopedOfBoth         |-> [lifetime |-> Scoped,    deps |-> <<"TSingleton", "TTransient">>]]

\* The types the callers ask for.
RequestedTypes ==
    {"TTransientOfScoped", "TSingletonOfSingleton", "TSingletonOfTransient",
     "TSingletonOfScoped", "TScopedOfScoped", "TScopedOfBoth", "TScoped"}

\* The types the default factory registered for typ resolves, in order: the
\* types of the exported fields of the struct (for a pointer type, of the
\* struct at the end of the pointers).
Deps(typ) ==
    IF "deps" \in DOMAIN registrations[typ]
        THEN registrations[typ].deps
        ELSE LET exported == SelectSeq(StructFields(typ.base), IsExported)
             IN  [i \in 1..Len(exported) |-> exported[i].type]

\* A struct value: `id` tells one allocation from another, `fields` are the
\* values set on the exported fields.  The zero id is the nil `any`.
Service(id, fields) == [id |-> id, fields |-> fields]

NilService == Service(0, <<>>)

\* What one Resolve call of a factory returned to it.
Resolved(typ, ctx, cache, val, err) ==
    [typ |-> typ, ctx |-> ctx, cache |-> cache, val |-> val, err |-> err]

\* A Resolve frame: `got` are the results of the Resolve calls its factory
\* has made so far.
Frame(ctx, typ, d) ==
    [ctx |-> ctx, typ |-> typ, pc |-> d.pc, cache |-> d.cache,
     resolver |-> d.resolver, got |-> <<>>]

\* The fields still to resolve; none after a failed Resolve call
\* (`if err != nil { return nil, resolverError{...} }`).
FactoryFailed(f) == \E i \in 1..Len(f.got) : f.got[i].err # NoError

FactoryDone(f) ==
    FactoryFailed(f) \/ Len(f.got) = Len(Deps(f.typ))

\* The record of a Resolve call that has returned; depth 0 is a call made by
\* a caller, depth n > 0 a call made by the factory of the frame below.
ReturnedAt(f, val, err, depth, invoked) ==
    [ctx |-> f.ctx, typ |-> f.typ, val |-> val, err |-> err, cache |-> f.cache,
     resolver |-> f.resolver, depth |-> depth, invoked |-> invoked,
     got |-> f.got]

\* The stack of goroutine p after its top frame has returned (val, err): the
\* frame below, if any, is the factory that made the call and gets the result.
ReturnTo(stack, val, err) ==
    LET f == stack[Len(stack)]
        rest == SubSeq(stack, 1, Len(stack) - 1)
    IN  IF rest = <<>> THEN rest
        ELSE [rest EXCEPT ![Len(rest)].got =
                    Append(@, Resolved(f.typ, f.ctx, f.cache, val, err))]

\* The top frame of goroutine p returns (val, err).
Return(p, val, err, invoked) ==
    /\ callers' = [callers EXCEPT ![p] = ReturnTo(@, val, err)]
    /\ history' = Record(ReturnedAt(Top(p), val, err, Len(callers[p]) - 1, invoked))

\* The top-level Resolve calls started so far.
RequestsMade ==
    BagCardinality(history)
        - BagCardinality([r \in {x \in BagToSet(history) : x.depth > 0}
                                |-> CopiesIn(r, history)])
        + Cardinality({p \in Callers : callers[p] # <<>>})

InitDependencies ==
    /\ registrations = DependencyRegistrations
    /\ scopes = <<>>
    /\ instances = [c \in CacheIds |-> <<>>]
    /\ mu = [c \in CacheIds |-> 0]
    /\ callers = [p \in Callers |-> <<>>]
    /\ history = EmptyBag
    /\ nextInstance = 1
    /\ CloseNotCalled
    /\ RegistryNotUsed
    /\ FacadeNotUsed
    /\ FactoryNotUsed

\* Goroutine q is inside a call and waits for the lock of a cache.
Waiting(q) ==
    /\ callers[q] # <<>>
    /\ Top(q).pc \in {"get", "lock"}
    /\ mu[Top(q).cache] # 0

\* Goroutine p calls Resolve(typ) on context ctx.  The calls are made one
\* after the other: the next one starts when the ones before have returned or
\* wait for a lock, and it is made by the first goroutine that is free.
Request(p, ctx, typ) ==
    /\ callers[p] = <<>>
    /\ \A q \in Callers : q < p => callers[q] # <<>>
    /\ \A q \in Callers : callers[q] = <<>> \/ Waiting(q)
    /\ RequestsMade < MaxCalls
    /\ LET d == Dispatch(ctx, typ) IN
        /\ d.pc # "done"
        /\ callers' = [callers EXCEPT ![p] = <<Frame(ctx, typ, d)>>]
    /\ UNCHANGED <<registrations, scopes, instances, mu, history, nextInstance>>
    /\ UNCHANGED <<closeVars, registryVars, facadeVars, factoryVars>>

\* instanceMap.resolve, fast path: m.get(typ) under the read lock.  RLock
\* waits while the write lock is held, whoever holds it.
GetOrWait(p) ==
    /\ callers[p] # <<>>
    /\ Top(p).pc = "get"
    /\ mu[Top(p).cache] = 0
    /\ IF Has(Top(p).cache, Top(p).typ)
       THEN Return(p, instances[Top(p).cache][Top(p).typ], NoError, 0)
       ELSE /\ callers' = SetPc(p, "lock")
            /\ UNCHANGED history
    /\ UNCHANGED <<registrations, scopes, instances, mu, nextInstance>>
    /\ UNCHANGED <<closeVars, registryVars, facadeVars, factoryVars>>

\* instanceMap.resolve: m.mu.Lock() and the re-check under the write lock; on
\* a miss the lock is held for the factory call.
LockOrWait(p) ==
    /\ callers[p] # <<>>
    /\ Top(p).pc = "lock"
    /\ mu[Top(p).cache] = 0
    /\ IF Recheck(Top(p).cache, Top(p).typ)
       THEN /\ Return(p, instances[Top(p).cache][Top(p).typ], NoError, 0)
            /\ UNCHANGED mu
       ELSE /\ mu' = [mu EXCEPT ![Top(p).cache] = p]
            /\ callers' = SetPc(p, "build")
            /\ UNCHANGED history
    /\ UNCHANGED <<registrations, scopes, instances, nextInstance>>
    /\ UNCHANGED <<closeVars, registryVars, facadeVars, factoryVars>>

\* The factory of the top frame calls Resolve(field.Type) on the Resolver it
\* was given: a result that needs no cache and no factory is returned at once.
FactoryResolve(p) ==
    /\ callers[p] # <<>>
    /\ Top(p).pc \in {"build", "transient"}
    /\ ~FactoryDone(Top(p))
    /\ LET f == Top(p)
           typ == Deps(f.typ)[Len(f.got) + 1]
           d == Dispatch(f.resolver, typ)
           child == Frame(f.resolver, typ, d)
       IN  IF d.pc = "done"
           THEN /\ callers' = [callers EXCEPT ![p] =
                                  ReturnTo(Append(@, child), NilService, d.err)]
                /\ history' = Record(ReturnedAt(child, NilService, d.err,
                                                Len(callers[p]), 0))
           ELSE /\ callers' = [callers EXCEPT ![p] = Append(@, child)]
                /\ UNCHANGED history
    /\ UNCHANGED <<registrations, scopes, instances, mu, nextInstance>>
    /\ UNCHANGED <<closeVars, registryVars, facadeVars, factoryVars>>

\* What the factory of frame f returns once its Resolve calls are made.
FactoryResult(f) ==
    IF FactoryFailed(f)
    THEN [val |-> NilService, err |-> resolverError(f.got[Len(f.got)].err)]
    ELSE [val |-> Service(nextInstance, [i \in 1..Len(f.got) |-> f.got[i].val]),
          err |-> NoError]

\* The factory of the top frame returns.  In instanceMap.resolve the value is
\* saved unless the factory failed, and the deferred Unlock runs; the
\* Transient branch of RootProvider.Resolve returns what the factory returned.
FactoryReturn(p) ==
    /\ callers[p] # <<>>
    /\ Top(p).pc \in {"build", "transient"}
    /\ FactoryDone(Top(p))
    /\ LET f == Top(p)
           res == FactoryResult(f)
       IN  /\ Return(p, res.val, res.err, 1)
           /\ nextInstance' = IF res.err = NoError THEN nextInstance + 1 ELSE nextInstance
           /\ IF f.pc = "build"
              THEN /\ instances' = [instances EXCEPT
                                      ![f.cache] = Store(@, f.typ, res.val, res.err = NoError)]
                   /\ mu' = [mu EXCEPT ![f.cache] = 0]
              ELSE UNCHANGED <<instances, mu>>
    /\ UNCHANGED <<registrations, scopes>>
    /\ UNCHANGED <<closeVars, registryVars, facadeVars, factoryVars>>

\* One step of goroutine p inside Resolve.
Step(p) ==
    \/ GetOrWait(p)
    \/ LockOrWait(p)
    \/ FactoryResolve(p)
    \/ FactoryReturn(p)

NextDependencies ==
    \/ \E ctx \in Contexts : NewScope(ctx)
    \/ \E p \in Callers, ctx \in Contexts, typ \in RequestedTypes : Request(p, ctx, typ)
    \/ \E p \in Callers : GetOrWait(p)
    \/ \E p \in Callers : LockOrWait(p)
    \/ \E p \in Callers : FactoryResolve(p)
    \/ \E p \in Callers : FactoryReturn(p)

SpecDependencies == InitDependencies /\ [][NextDependencies]_vars

\* The Go scheduler runs every goroutine that can take a step.
FairSpecDependencies ==
    /\ SpecDependencies
    /\ \A p \in Callers : WF_vars(Step(p))

----------------------------------------------------------------------------
(* A program that registers one struct type, or one pointer to a struct      *)
(* type, with RegisterType, builds the RootProvider and resolves the type on *)
(* the RootProvider and on Scopes.  No other type is registered: the types   *)
(* of the struct's exported fields have no registration.                     *)

StructImpls ==
    [ptr : 0..MaxPtrDepth,
     base : {"struct{}", "widget", "thing", "unexportedFieldsOnly"}]

InitStructs ==
    /\ FacadeNotUsed
    /\ FactoryNotUsed
    /\ RegistryEmpty
    /\ \E impl \in StructImpls, lifetime \in Lifetimes :
        pending = [NoCall EXCEPT !.fn = "RegisterType", !.target = impl,
                                 !.impl = impl, !.lifetime = lifetime]

NextStructs ==
    \/ RegisterTypePending
    \/ \E registry \in held : lastCall # NoCall /\ BuildRootProvider(registry)
    \/ \E ctx \in Contexts : providerMap # NotBuilt /\ NewScope(ctx)
    \/ \E p \in Callers, ctx \in Contexts, typ \in DOMAIN registrations :
            providerMap # NotBuilt /\ Request(p, ctx, typ)
    \/ \E p \in Callers : GetOrWait(p)
    \/ \E p \in Callers : LockOrWait(p)
    \/ \E p \in Callers : FactoryResolve(p)
    \/ \E p \in Callers : FactoryReturn(p)

SpecStructs == InitStructs /\ [][NextStructs]_vars

----------------------------------------------------------------------------
(* Vocabulary of the properties. *)

\* The Resolve calls that have returned.
Calls == BagToSet(history)

Ok(r) == r.err = NoError

HasLifetime(typ, lifetime) ==
    typ \in DOMAIN registrations /\ registrations[typ].lifetime = lifetime

\* The returned calls that went through instanceMap `cache` for `typ`.
CallsOn(cache, typ) == {r \in Calls : r.cache = cache /\ r.typ = typ}

\* The number of factory calls the returned calls on (cache, typ) made.
Invocations(cache, typ) ==
    LET S == {r \in CallsOn(cache, typ) : r.invoked = 1}
    IN  BagCardinality([r \in S |-> CopiesIn(r, history)])

\* A goroutine is inside a Resolve(typ) call made on context ctx.
InFlight(ctx, typ) ==
    \E p \in Callers : \E i \in 1..Len(callers[p]) :
        callers[p][i].ctx = ctx /\ callers[p][i].typ = typ

\* A registration call has returned.
Called == lastCall.fn # "none"

\* The registrations observable through Registry value r: what a RootProvider
\* built from it now would hold.
Observable(r) == MapAt(heap, r)

\* The registrations that were observable through r when the last call was made.
ObservableBefore(r) == MapAt(lastCall.before, r)

\* The Registry values that existed when the last call was made.
HeldBefore == {r \in held : r <= Len(lastCall.before)}

\* The registration a successful call stores.
Registered(call) ==
    [lifetime |-> call.lifetime,
     factory |-> IF call.fn = "RegisterType" THEN DefaultFactory(call.impl)
                                             ELSE call.factory]

\* The error the same call returns on Registry{}.
ErrOnEmptyRegistry(call) ==
    IF call.fn = "RegisterType"
        THEN RegisterType(<<>>, Nil, call.target, call.impl, call.lifetime).err
        ELSE RegisterFactory(<<>>, Nil, call.target, call.impl, call.lifetime,
                             call.factory).err

\* The kind of the type at the end of the chain of pointers of typ.
PointeeKind(typ) == BaseKind(typ.base)

\* README, Default Factories: no default factory for uintptr, function,
\* unsafe pointer and interface types, and a pointer type has one if and only
\* if the type it points to has one.
HasDefaultFactory(typ) ==
    PointeeKind(typ) \notin {"Uintptr", "Func", "UnsafePointer", "Interface"}

\* The arguments of the call are valid but for the pairing of the lifetime
\* with the implementation type.
OtherwiseValid(call) ==
    /\ Kind(call.impl) # "Interface"
    /\ AssignableTo(call.impl, call.target)
    /\ call.lifetime \in {Transient, Scoped, Singleton}
    /\ call.fn = "RegisterFactory" => call.factory # NilFactory
    /\ call.fn = "RegisterType" => HasDefaultFactory(call.impl)

\* Every registration of every map has one of the three defined lifetimes.
OnlyDefinedLifetimes ==
    \A m \in 1..Len(heap) : \A t \in DOMAIN heap[m] :
        heap[m][t].lifetime \in {Transient, Scoped, Singleton}

\* The default factory of the type has been derived and invoked.
Invoked == factoryResults # <<>>

IsReference(v) == "ref" \in DOMAIN v

\* The value v with every reference replaced by the object it refers to in
\* memory h: what reflect.DeepEqual compares.
RECURSIVE Deep(_, _)

Deep(v, h) ==
    IF IsReference(v)
        THEN [type |-> v.type, kind |-> h[v.ref].kind, size |-> h[v.ref].size,
              val |-> Deep(h[v.ref].val, h)]
        ELSE v

\* The objects reachable from value v in memory h.
RECURSIVE Reachable(_, _)

Reachable(v, h) ==
    IF IsReference(v) THEN {v.ref} \cup Reachable(h[v.ref].val, h) ELSE {}

\* The exported fields of struct type typ, in declaration order.
ExportedFields(typ) == SelectSeq(StructFields(typ.base), LAMBDA field : field.exported)

\* The field names of struct type typ.
FieldNames(typ) ==
    {StructFields(typ.base)[i].name : i \in 1..Len(StructFields(typ.base))}

FieldNamed(typ, name) ==
    StructFields(typ.base)[CHOOSE i \in 1..Len(StructFields(typ.base)) :
                                StructFields(typ.base)[i].name = name]

\* The resolver of the call returns, without error, a value that can be
\* assigned to the field.
Resolvable(field) ==
    /\ field.type \in DOMAIN factoryCall.resolver
    /\ factoryCall.resolver[field.type].err = NoError
    /\ factoryCall.resolver[field.type].val # NilValue
    /\ AssignableTo(TypeOf(factoryCall.resolver[field.type].val), field.type)

\* The position, among the exported fields, of the first one the resolver of
\* the call cannot resolve; 0 if there is none.
FirstUnresolvable(typ) ==
    LET failing == {k \in 1..Len(ExportedFields(typ)) : ~Resolvable(ExportedFields(typ)[k])}
    IN  IF failing = {} THEN 0
        ELSE CHOOSE k \in failing : \A j \in failing : k <= j

\* What the default factory of the element type returns on its own.
ElemResult ==
    defaultFactory(Elem(factoryCall.T), factoryCall.resolver, <<>>)

\* A RootProvider has been built from a Registry of the behaviour.
Built == providerMap # NotBuilt

----------------------------------------------------------------------------
\* C1: for every instance cache and every type whose factory has not failed,
\* however the resolve calls of concurrent goroutines interleave, once a call
\* has returned the factory has been invoked exactly once and every call has
\* returned the one instance the cache holds.
C1_FactoryInvokedOnce ==
    \A c \in CacheIds, t \in Types :
        (CallsOn(c, t) # {} /\ \A r \in CallsOn(c, t) : Ok(r)) =>
            /\ Invocations(c, t) = 1
            /\ Has(c, t)
            /\ \A r \in CallsOn(c, t) : r.val = instances[c][t]

\* Two goroutines raced on a first resolve: one built the instance, the other
\* missed on the fast path and found it in the re-check under the write lock.
C1_Witness ==
    \E r1, r2 \in Calls :
        /\ r1.cache = r2.cache /\ r1.typ = r2.typ
        /\ r1.via = "build" /\ Ok(r1)
        /\ r2.via = "check" /\ r2.val = r1.val

\* C2: any two successful Resolve calls of a Singleton type, made on the
\* RootProvider or on any Scope created from it directly or through nested
\* NewScope calls, return the identical (non-nil) instance.
C2_SingletonIdentical ==
    \A r1, r2 \in Calls :
        (r1.typ = r2.typ /\ HasLifetime(r1.typ, Singleton) /\ Ok(r1) /\ Ok(r2)) =>
            (r1.val = r2.val /\ r1.val # Nil)

\* A Singleton was resolved on the RootProvider and on a Scope that another
\* Scope created.
C2_Witness ==
    \E r1, r2 \in Calls :
        /\ r1.typ = r2.typ /\ HasLifetime(r1.typ, Singleton) /\ Ok(r1) /\ Ok(r2)
        /\ r1.ctx = Root
        /\ r2.ctx \in ScopeIds /\ scopes[r2.ctx] # Root
        /\ r1.val = r2.val

\* C3: two successful Resolve calls of a Scoped type return the identical
\* instance when made on the same Scope and distinct instances when made on
\* two different Scopes (siblings, or a Scope and a Scope it created).
C3_ScopedPerScope ==
    \A r1, r2 \in Calls :
        (r1.typ = r2.typ /\ HasLifetime(r1.typ, Scoped) /\ Ok(r1) /\ Ok(r2)) =>
            /\ r1.val # Nil
            /\ (r1.ctx = r2.ctx) <=> (r1.val = r2.val)

\* A Scoped type was resolved on a Scope and on the Scope it created.
C3_Witness ==
    \E r1, r2 \in Calls :
        /\ r1.typ = r2.typ /\ HasLifetime(r1.typ, Scoped) /\ Ok(r1) /\ Ok(r2)
        /\ r1.ctx \in ScopeIds /\ r2.ctx \in ScopeIds
        /\ scopes[r2.ctx] = r1.ctx
        /\ r1.val # r2.val

\* C4: every Resolve call of a Transient type, on the RootProvider or on a
\* Scope, invokes the factory exactly once and goes through no cache; a
\* successful call returns a value that no other call returned and that no
\* singleton or scoped cache holds.
C4_TransientFresh ==
    \A r \in Calls :
        HasLifetime(r.typ, Transient) =>
            /\ r.invoked = 1
            /\ r.cache = NoCache
            /\ Ok(r) =>
                /\ r.val # Nil
                /\ CopiesIn(r, history) = 1
                /\ \A r2 \in Calls \ {r} : r2.val # r.val
                /\ \A c \in CacheIds : \A t \in DOMAIN instances[c] :
                       instances[c][t] # r.val

\* A Transient type was resolved twice on the same context.
C4_Witness ==
    \E r1, r2 \in Calls :
        /\ r1 # r2 /\ r1.ctx = r2.ctx /\ r1.typ = r2.typ
        /\ HasLifetime(r1.typ, Transient) /\ Ok(r1) /\ Ok(r2)

\* C5: a Resolve call of a Scoped type on the RootProvider fails with
\* ScopedValueRequestedFromRootProvider{Type: the requested type}; it makes
\* no factory call and reaches no instanceMap, so it never waits inside the
\* call and the singleton cache never gets an entry for a Scoped type.
C5_ScopedFromRootFails ==
    \A t \in Types :
        HasLifetime(t, Scoped) =>
            /\ \A r \in Calls :
                   (r.ctx = Root /\ r.typ = t) =>
                       /\ r.err = ScopedValueRequestedFromRootProvider(t)
                       /\ r.val = Nil
                       /\ r.invoked = 0
                       /\ r.cache = NoCache
            /\ ~InFlight(Root, t)
            /\ ~Has(SingletonsOf(Root), t)

\* A Scoped type was requested from the RootProvider while the singleton cache
\* held an instance.
C5_Witness ==
    /\ \E r \in Calls :
           /\ r.ctx = Root /\ HasLifetime(r.typ, Scoped)
           /\ r.err = ScopedValueRequestedFromRootProvider(r.typ)
    /\ instances[SingletonsOf(Root)] # <<>>

\* C6: a Resolve call of a type with no registration, on the RootProvider or
\* on any Scope, fails with UnknownType{Type: the requested type}, which is
\* ErrUnknownType; it makes no factory call and reaches no cache, and no cache
\* ever holds an entry for such a type.
C6_UnknownType ==
    \A t \in Types \ DOMAIN registrations :
        /\ \A r \in Calls :
               r.typ = t =>
                   /\ r.err = UnknownType(t)
                   /\ IsErrUnknownType(r.err)
                   /\ r.val = Nil
                   /\ r.invoked = 0
                   /\ r.cache = NoCache
        /\ \A ctx \in Contexts : ~InFlight(ctx, t)
        /\ \A c \in CacheIds : ~Has(c, t)

\* An unregistered type was requested from the RootProvider and from a Scope.
C6_Witness ==
    \E r1, r2 \in Calls :
        /\ r1.typ \notin DOMAIN registrations /\ r2.typ = r1.typ
        /\ r1.ctx = Root /\ r2.ctx \in ScopeIds
        /\ r1.err = UnknownType(r1.typ) /\ r2.err = UnknownType(r2.typ)

\* C7: a failed factory call of a Singleton or Scoped type is not memoized.
\* The caller gets the factory's error itself and nil; a cache entry exists
\* only for a value that a successful factory call returned, so after a
\* failure the cache has no entry until a later call's own factory call
\* succeeds; and a call that makes no factory call never returns an error.
C7_FailureNotCached ==
    /\ \A r \in Calls :
           r.cache # NoCache =>
               /\ ~Ok(r) => (r.err = FactoryError(r.typ) /\ r.val = Nil /\ r.invoked = 1)
               /\ r.invoked = 0 =>
                      (Ok(r) /\ Has(r.cache, r.typ) /\ r.val = instances[r.cache][r.typ])
    /\ \A c \in CacheIds : \A t \in DOMAIN instances[c] :
           /\ instances[c][t] # Nil
           /\ \E r \in CallsOn(c, t) :
                  r.via = "build" /\ Ok(r) /\ r.val = instances[c][t]
    /\ \A c \in CacheIds, t \in Types :
           (CallsOn(c, t) # {} /\ \A r \in CallsOn(c, t) : ~Ok(r)) => ~Has(c, t)

\* A factory failed, the next resolve on the same cache called the factory
\* again, which succeeded, and the value was cached.
C7_Witness ==
    \E r1, r2 \in Calls :
        /\ r1.cache # NoCache /\ r2.cache = r1.cache /\ r2.typ = r1.typ
        /\ r1.err = FactoryError(r1.typ)
        /\ r2.via = "build" /\ Ok(r2)
        /\ Has(r2.cache, r2.typ) /\ instances[r2.cache][r2.typ] = r2.val

----------------------------------------------------------------------------
(* Vocabulary of the properties of Scope.Close. *)

\* The close tasks that have returned a non-nil error.
Failed == {v \in DOMAIN tasks : tasks[v].pc # "close" /\ tasks[v].result # NoError}

AllTasksDone == \A v \in DOMAIN tasks : tasks[v].pc = "done"

\* The errors of the list errs.
Elements(errs) == {errs[i] : i \in 1..Len(errs)}

\* The list holds only errors that close tasks have returned, none of them
\* nil and none twice, in the order in which they were sent.
OnlyArrivedErrors(errs) ==
    /\ \A i \in 1..Len(errs) : \E v \in Failed : errs[i] = CloseError(v)
    /\ \A i, j \in 1..Len(errs) :
           i < j => tasks[errs[i].Type].arrival < tasks[errs[j].Type].arrival

\* C8 (as claimed): when Close has returned, the context is not cancelled and
\* every close task has completed, the returned list holds every non-nil
\* error the tasks returned, in arrival order, and nothing else.
C8_AllErrorsReturned ==
    (closePc = "returned" /\ ~ctxDone /\ AllTasksDone) =>
        /\ OnlyArrivedErrors(closeResult)
        /\ \A v \in Failed : CloseError(v) \in Elements(closeResult)

\* C9: Close returns on cancellation without waiting: while Close is in its
\* loop and the context is done, the return is ready whatever the tasks do.
\* The list Close returned holds only errors that tasks had returned - no nil
\* and no error of the context - in arrival order, and it never changes after
\* the return, whatever the remaining tasks send.
C9_ReturnsOnCancel ==
    /\ [](/\ (closePc = "select" /\ ctxDone) => ENABLED SelectCtx
          /\ closePc = "returned" => OnlyArrivedErrors(closeResult))
    /\ [][closePc = "returned" => closeResult' = closeResult]_vars

\* Close returned on cancellation with the error of one task while another
\* task was still inside its Close method.
C9_Witness ==
    /\ closePc = "returned"
    /\ ctxDone
    /\ \E v \in DOMAIN tasks : tasks[v].pc = "close"
    /\ closeResult # <<>>

\* C10 (as claimed): every call of Close eventually returns.
C10_CloseAlwaysReturns ==
    (closePc = "select") ~> (closePc = "returned")

\* C10 (amended): a call of Close eventually returns once the context is done
\* or every close task has returned from the value's Close method.
C10_CloseReturnsOnceReleased ==
    (closePc = "select" /\ (ctxDone \/ \A v \in DOMAIN tasks : tasks[v].pc # "close"))
        ~> (closePc = "returned")

\* Close returned although no close task ever returned: the context was done.
C10_Witness ==
    /\ closePc = "returned"
    /\ DOMAIN tasks # {}
    /\ \A v \in DOMAIN tasks : tasks[v].pc = "close"
    /\ ~wgDone

\* C11: once Scope.Close has started its goroutines, there is one close task
\* for each value of the closed scope's cache that implements ContextCloser,
\* which is closed with the context, one for each value that implements only
\* Closer, which is closed without it, none for a value that implements
\* neither, and none for a value of another scope's cache or of the singleton
\* cache.
C11_CloseTasks ==
    closePc # "idle" =>
        /\ \A v \in DOMAIN tasks : v \in Values(ScopedValuesOf(closeScope))
        /\ \A t \in DOMAIN instances[ScopedValuesOf(closeScope)] :
            LET v == instances[ScopedValuesOf(closeScope)][t] IN
                CASE ImplementsContextCloser(t) ->
                        v \in DOMAIN tasks /\ tasks[v].capability = "ContextCloser"
                  [] ImplementsCloser(t) ->
                        v \in DOMAIN tasks /\ tasks[v].capability = "Closer"
                  [] OTHER -> v \notin DOMAIN tasks

\* Close was called on a scope that holds a value of each kind while the
\* other scope and the singleton cache hold closeable values too.
C11_Witness ==
    /\ closePc # "idle"
    /\ DOMAIN instances[ScopedValuesOf(closeScope)] = CloseTypes
    /\ Cardinality(DOMAIN tasks) = 2
    /\ \E c \in (1..MaxScopes) \ {closeScope} : Closeable(c) # {}
    /\ Closeable(SingletonsOf(closeScope)) # {}

\* C12: when RegisterType or RegisterFactory has returned an error, the
\* Registry it returned is the Registry it was given, and that Registry, like
\* every other Registry the program held, holds the registrations it held
\* before the call.
C12_UnchangedOnError ==
    (Called /\ lastCall.err # NoError) =>
        /\ lastCall.out = lastCall.in
        /\ Observable(lastCall.out) = ObservableBefore(lastCall.in)
        /\ \A r \in HeldBefore : Observable(r) = ObservableBefore(r)

\* A call failed on a Registry that holds a registration.
C12_Witness ==
    /\ Called
    /\ lastCall.err # NoError
    /\ DOMAIN Observable(lastCall.in) # {}

\* C13: after a successful RegisterType or RegisterFactory call, every
\* Registry value that existed before the call, the one the call was made on
\* included, holds the registrations it held before the call.
C13_RegistrationIsPure ==
    (Called /\ lastCall.err = NoError) =>
        \A r \in HeldBefore : Observable(r) = ObservableBefore(r)

\* C14: once a RootProvider is built, no step of the program, a successful
\* registration on the source Registry included, changes the registrations
\* the RootProvider holds, nor what its Resolve does with any target.
C14_ProviderHoldsACopy ==
    [][Built =>
        /\ registrations' = registrations
        /\ \A t \in RegistryTargets :
            RootProviderResolve(Root, t)' = RootProviderResolve(Root, t)]_vars

\* After the RootProvider was built from a Registry, a registration on that
\* Registry succeeded and the Registry now differs from the RootProvider.
C14_Witness ==
    /\ Built
    /\ providerMap # Nil
    /\ Called
    /\ lastCall.err = NoError
    /\ providerMap <= Len(lastCall.before)
    /\ ObservableBefore(lastCall.in) = registrations
    /\ Observable(lastCall.in) # registrations

\* C15: a registration call for a target that already has a registration
\* returns what it returns on an empty Registry (no duplicate is detected);
\* when it succeeds the returned Registry holds the registrations of before
\* with the target's registration replaced by the new lifetime and factory,
\* and a RootProvider built from a Registry holds that Registry's
\* registrations.
C15_LaterRegistrationOverwrites ==
    /\ []((Called /\ lastCall.target \in DOMAIN ObservableBefore(lastCall.in)) =>
            /\ lastCall.err = ErrOnEmptyRegistry(lastCall)
            /\ lastCall.err = NoError =>
                    Observable(lastCall.out) =
                        [ObservableBefore(lastCall.in) EXCEPT
                            ![lastCall.target] = Registered(lastCall)])
    /\ [][\A r \in held :
            BuildRootProvider(r) => registrations' = Observable(r)]_vars

\* A target registered as one thing was registered again as another, and the
\* RootProvider built from the returned Registry holds the second.
C15_Witness ==
    /\ Called
    /\ lastCall.err = NoError
    /\ lastCall.target \in DOMAIN ObservableBefore(lastCall.in)
    /\ ObservableBefore(lastCall.in)[lastCall.target] # Registered(lastCall)
    /\ Built
    /\ providerMap > Len(lastCall.before)
    /\ registrations = Observable(lastCall.out)
    /\ registrations[lastCall.target] = Registered(lastCall)

\* C16: a call of either entry point whose other arguments are valid succeeds
\* with Transient whatever the kind of the implementation type, and with
\* Scoped or Singleton succeeds if and only if that kind is pointer or
\* channel; when it fails the error is UnsharableType with the
\* implementation type and the requested lifetime.
C16_SharableLifetimes ==
    (Called /\ OtherwiseValid(lastCall)) =>
        /\ lastCall.lifetime = Transient => lastCall.err = NoError
        /\ lastCall.lifetime \in {Scoped, Singleton} =>
            /\ lastCall.err = NoError <=> Kind(lastCall.impl) \in {"Pointer", "Chan"}
            /\ lastCall.err # NoError =>
                    lastCall.err = UnsharableType(lastCall.impl, lastCall.lifetime)
        /\ lastCall.err = NoError =>
                Observable(lastCall.out) = Put(<<>>, lastCall.target, Registered(lastCall))

\* RegisterType of a struct as Singleton was rejected as unsharable.
C16_Witness ==
    /\ Called
    /\ OtherwiseValid(lastCall)
    /\ lastCall.fn = "RegisterType"
    /\ lastCall.lifetime = Singleton
    /\ Kind(lastCall.impl) = "Struct"
    /\ lastCall.err = UnsharableType(lastCall.impl, Singleton)

\* C17: a call of either entry point whose implementation type is an
\* interface type returns NonConcreteImplementation with that type.
C17_InterfaceImplRejected ==
    (Called /\ Kind(lastCall.impl) = "Interface") =>
        lastCall.err = NonConcreteImplementation(lastCall.impl)

\* C18 as stated: a call of either entry point with a concrete implementation
\* type assignable to the target and an undefined lifetime returns
\* UndefinedLifetime with that value, and no map holds a registration with
\* an undefined lifetime.
C18_UndefinedLifetimeRejected ==
    /\ (/\ Called
        /\ Kind(lastCall.impl) # "Interface"
        /\ AssignableTo(lastCall.impl, lastCall.target)
        /\ lastCall.lifetime \notin {Transient, Scoped, Singleton}) =>
            lastCall.err = UndefinedLifetime(lastCall.lifetime)
    /\ OnlyDefinedLifetimes

\* C18 amended: such a call returns UndefinedLifetime with that value, except
\* that RegisterType returns NoDefaultFactory when the implementation type
\* has no default factory; either way no map holds a registration with an
\* undefined lifetime.
C18_UndefinedLifetimeOrNoDefaultFactory ==
    /\ (/\ Called
        /\ Kind(lastCall.impl) # "Interface"
        /\ AssignableTo(lastCall.impl, lastCall.target)
        /\ lastCall.lifetime \notin {Transient, Scoped, Singleton}) =>
            lastCall.err =
                IF lastCall.fn = "RegisterType" /\ ~HasDefaultFactory(lastCall.impl)
                    THEN NoDefaultFactory(lastCall.impl)
                    ELSE UndefinedLifetime(lastCall.lifetime)
    /\ OnlyDefinedLifetimes

\* RegisterType of a pointer type as lifetime 13 was rejected as undefined.
C18_Witness ==
    /\ Called
    /\ lastCall.fn = "RegisterType"
    /\ Kind(lastCall.impl) = "Pointer"
    /\ AssignableTo(lastCall.impl, lastCall.target)
    /\ lastCall.lifetime = 13
    /\ lastCall.err = UndefinedLifetime(13)

\* C19: RegisterType of a uintptr, function or unsafe pointer type, or of a
\* pointer of any depth to one, returns NoDefaultFactory with the
\* implementation type as registered, whatever the target and the lifetime.
C19_NoDefaultFactory ==
    (/\ Called
     /\ lastCall.fn = "RegisterType"
     /\ PointeeKind(lastCall.impl) \in {"Uintptr", "Func", "UnsafePointer"}) =>
        lastCall.err = NoDefaultFactory(lastCall.impl)

\* RegisterType[interface{}, **func()] as Scoped: the error names **func().
C19_Witness ==
    /\ Called
    /\ lastCall.fn = "RegisterType"
    /\ lastCall.target = TypeFor("interface{}")
    /\ lastCall.impl = PointerTo(PointerTo(TypeFor("func()")))
    /\ lastCall.lifetime = Scoped
    /\ lastCall.err = NoDefaultFactory(PointerTo(PointerTo(TypeFor("func()"))))

\* C20: Resolve[T] called with a nil Resolver returns ErrNilResolver and the
\* Resolver records no request; called with a Resolver that is not nil, the
\* Resolver records exactly one request, for the type T.
C20_FacadeCallsResolveOnce ==
    facadeResult # NotReturned =>
        IF facadeCall.resolver = Nil
            THEN /\ facadeResult.err = ErrNilResolver
                 /\ mock.requestedTypes = <<>>
            ELSE mock.requestedTypes = <<facadeCall.T>>

\* Resolve[io.Reader] returned after its one request to the Resolver.
C20_Witness ==
    /\ facadeResult # NotReturned
    /\ facadeCall.T = TypeFor("io.Reader")
    /\ facadeCall.resolver # Nil
    /\ mock.requestedTypes = <<TypeFor("io.Reader")>>
    /\ facadeResult.err = NoError

C22_PointerFactory ==
    /\ \A typ \in FactoryTypes :
        Kind(typ) = "Pointer" =>
            (GetDefaultFactory(typ).err = NoError
                <=> GetDefaultFactory(Elem(typ)).err = NoError)
    /\ Kind(factoryCall.T) = "Pointer" =>
        \A i \in 1..Len(factoryResults) :
            LET res == factoryResults[i] IN
                IF ElemResult.err # NoError
                    THEN res.err = ElemResult.err
                    ELSE /\ res.err = NoError
                         /\ res.val # NilValue
                         /\ IsReference(res.val)
                         /\ res.val.type = factoryCall.T
                         /\ allocs[res.val.ref].kind = "var"
                         /\ Deep(allocs[res.val.ref].val, allocs)
                                = Deep(ElemResult.val, ElemResult.heap)
                         /\ \A j \in 1..Len(factoryResults) :
                                j # i => Reachable(res.val, allocs)
                                            \cap Reachable(factoryResults[j].val, allocs) = {}

\* The factory of **map[int]string was invoked twice.
C22_Witness ==
    /\ factoryCall.T = PointerTo(PointerTo(TypeFor("map[int]string")))
    /\ Len(factoryResults) = 2
    /\ \A i \in 1..2 : factoryResults[i].err = NoError
    /\ Len(allocs) = 6

\* C23: an invocation of the default factory of a struct type whose exported
\* fields the resolver can all resolve makes one Resolve call per exported
\* field, in declaration order, with the field's declared type, and none
\* for any other type; the struct it returns holds, in each exported field,
\* the value the resolver returned for the field's type, and in each
\* unexported field the zero value.
C23_StructFactory ==
    (/\ Kind(factoryCall.T) = "Struct"
     /\ \A k \in 1..Len(ExportedFields(factoryCall.T)) :
            Resolvable(ExportedFields(factoryCall.T)[k])) =>
        \A i \in 1..Len(factoryResults) :
            LET res == factoryResults[i] IN
                /\ res.err = NoError
                /\ res.calls = [k \in 1..Len(ExportedFields(factoryCall.T)) |->
                                    ExportedFields(factoryCall.T)[k].type]
                /\ res.val.type = factoryCall.T
                /\ \A name \in FieldNames(factoryCall.T) :
                    res.val.fields[name] =
                        IF FieldNamed(factoryCall.T, name).exported
                            THEN factoryCall.resolver[FieldNamed(factoryCall.T, name).type].val
                            ELSE Zero(FieldNamed(factoryCall.T, name).type)

\* The factory of recursiveStruct was invoked with a resolver that resolves
\* thing, widget and *gadget: it asked for thing only.
C23_Witness ==
    /\ factoryCall.T = TypeFor("recursiveStruct")
    /\ DOMAIN factoryCall.resolver = FieldTypes
    /\ \A typ \in FieldTypes : factoryCall.resolver[typ].val = ValueOf(typ)
    /\ Invoked
    /\ factoryResults[1].err = NoError
    /\ factoryResults[1].calls = <<TypeFor("thing")>>

\* C24: an invocation of the default factory of a struct type with an
\* exported field the resolver cannot resolve returns no value, has made the
\* Resolve calls of the exported fields up to the first such field and none
\* after it, and returns, for that field, the resolver's error wrapped as a
\* resolver error with that error as cause, or InvalidResolution with the
\* field's type and the type of the value if the resolver returned a value
\* that cannot be assigned to the field.
C24_StructFactoryStopsAtFirstFailure ==
    (Kind(factoryCall.T) = "Struct" /\ FirstUnresolvable(factoryCall.T) # 0) =>
        \A i \in 1..Len(factoryResults) :
            LET res == factoryResults[i]
                first == FirstUnresolvable(factoryCall.T)
                field == ExportedFields(factoryCall.T)[first]
                resolved == testResolve(factoryCall.resolver, field.type)
            IN  /\ res.val = NilValue
                /\ res.calls = [k \in 1..first |-> ExportedFields(factoryCall.T)[k].type]
                /\ IF resolved.err # NoError
                        THEN /\ IsErrResolverError(res.err)
                             /\ Unwrap(res.err) = resolved.err
                        ELSE res.err = InvalidResolution(field.type, TypeOf(resolved.val))

\* The factory of thing was invoked with a resolver that fails for widget
\* and resolves *gadget: the only call was for widget.
C24_Witness ==
    /\ factoryCall.T = TypeFor("thing")
    /\ DOMAIN factoryCall.resolver = FieldTypes
    /\ factoryCall.resolver[TypeFor("widget")].err = ExpectedError
    /\ factoryCall.resolver[PointerTo(TypeFor("gadget"))].val
            = ValueOf(PointerTo(TypeFor("gadget")))
    /\ Invoked
    /\ factoryResults[1].calls = <<TypeFor("widget")>>
    /\ Unwrap(factoryResults[1].err) = ExpectedError

\* C25: a default factory is derived for every bool, numeric, string, array,
\* slice, map, channel and struct type; invoked, the factory of a type of
\* one of these kinds other than struct makes no Resolve call and returns no
\* error, and returns the zero value for bool, numeric, string, array and
\* slice types, a map that is not nil, is empty and is not the map of another
\* invocation for a map type, and a channel of capacity 0 that is not the
\* channel of another invocation for a channel type.
C25_ValueFactories ==
    /\ \A typ \in FactoryTypes :
        Kind(typ) \in {"Bool", "Int", "String", "Array", "Slice", "Map", "Chan", "Struct"} =>
            GetDefaultFactory(typ).err = NoError
    /\ \A i \in 1..Len(factoryResults) :
        LET res == factoryResults[i] IN
            /\ Kind(factoryCall.T) \in {"Bool", "Int", "String", "Array", "Slice"} =>
                    /\ res.err = NoError /\ res.calls = <<>>
                    /\ res.val = Zero(factoryCall.T)
            /\ Kind(factoryCall.T) \in {"Map", "Chan"} =>
                    /\ res.err = NoError /\ res.calls = <<>>
                    /\ IsReference(res.val)
                    /\ res.val.type = factoryCall.T
                    /\ allocs[res.val.ref].kind
                            = (IF Kind(factoryCall.T) = "Map" THEN "map" ELSE "chan")
                    /\ allocs[res.val.ref].size = 0
                    /\ \A j \in 1..Len(factoryResults) :
                            j # i => factoryResults[j].val.ref # res.val.ref

\* The factory of chan int was invoked twice and returned two channels.
C25_Witness ==
    /\ factoryCall.T = TypeFor("chan int")
    /\ Len(factoryResults) = 2
    /\ factoryResults[1].val.ref # factoryResults[2].val.ref
    /\ allocs[factoryResults[2].val.ref].size = 0

----------------------------------------------------------------------------
(* Factories with dependencies (SpecDependencies). *)

\* The calls made by a caller, as opposed to those made by a factory.
Requests == {r \in Calls : r.depth = 0}

\* C26: whichever context Resolve is called on, the factory that runs for the
\* requested type gets that context as its Resolver and resolves its
\* dependencies through it; a Transient type resolved on a Scope whose factory
\* asks for a Scoped dependency gets the value of that Scope's cache.
C26_FactoryResolvesThroughContext ==
    \A r \in Requests :
        r.invoked = 1 =>
            /\ r.resolver = r.ctx
            /\ \A i \in 1..Len(r.got) : r.got[i].ctx = r.ctx
            /\ (r.typ = "TTransientOfScoped" /\ r.ctx # Root) =>
                    /\ r.err = NoError
                    /\ r.got[1].cache = ScopedValuesOf(r.ctx)
                    /\ Has(ScopedValuesOf(r.ctx), "TScoped")
                    /\ r.val.fields[1] = instances[ScopedValuesOf(r.ctx)]["TScoped"]

\* Goroutine p is inside a Resolve(typ) call made by a caller.
Requesting(p, typ) == callers[p] # <<>> /\ callers[p][1].typ = typ

\* C27: a Resolve of a Singleton type whose factory resolves another
\* Singleton type through the Resolver it was given returns, with both values
\* in the singleton cache.
C27_NestedSingletonTerminates ==
    \A p \in Callers :
        Requesting(p, "TSingletonOfSingleton") ~>
            /\ callers[p] = <<>>
            /\ Has(Root, "TSingletonOfSingleton")
            /\ Has(Root, "TSingleton")

\* C28: a Resolve of a Scoped type on a Scope returns, with the value in the
\* cache of that Scope, when its factory resolves another Scoped type through
\* the Resolver it was given (both values are then in that cache) and when it
\* resolves a Singleton and a Transient type.
C28_NestedScopedTerminates ==
    \A p \in Callers : \A typ \in {"TScopedOfScoped", "TScopedOfBoth"} :
        (Requesting(p, typ) /\ callers[p][1].ctx # Root) ~>
            /\ callers[p] = <<>>
            /\ \E r \in Requests :
                /\ r.typ = typ /\ r.err = NoError
                /\ Has(ScopedValuesOf(r.ctx), typ)
                /\ typ = "TScopedOfScoped" => Has(ScopedValuesOf(r.ctx), "TScoped")

----------------------------------------------------------------------------
(* Lifetimes of the registrations held (SpecRegistry). *)

\* RootProvider.Resolve(typ) on the provider built would take the default
\* branch of the switch on the lifetime.
ReachesUnreachable(typ) ==
    RootProviderResolve(Root, typ).err.kind = "panic"

\* C29: every registration held by a Registry or by the RootProvider built
\* from one has the lifetime Transient, Scoped or Singleton, and no Resolve
\* call on the provider takes the branch marked unreachable.
C29_LifetimesDefined ==
    /\ OnlyDefinedLifetimes
    /\ providerMap # NotBuilt =>
            /\ registrations = MapAt(heap, providerMap)
            /\ \A typ \in DOMAIN registrations :
                    registrations[typ].lifetime \in {Transient, Scoped, Singleton}
            /\ \A typ \in RegistryTargets \cup RegistryImpls : ~ReachesUnreachable(typ)

\* A provider holds a registration, and a later call with the lifetime 13 was
\* rejected for it.
C29_Witness ==
    /\ providerMap # NotBuilt
    /\ DOMAIN registrations # {}
    /\ lastCall.lifetime = 13
    /\ lastCall.err = UndefinedLifetime(13)

----------------------------------------------------------------------------
(* The registrations of a RootProvider (SpecDependencies). *)

----------------------------------------------------------------------------
(* Order of the checks of a registration call (SpecRegister). *)

\* The first of the checks, in the order concreteness, assignability, defined
\* lifetime, sharability, factory given, that the arguments fail.
FirstViolation(call) ==
    IF Kind(call.impl) = "Interface"
        THEN NonConcreteImplementation(call.impl)
    ELSE IF ~AssignableTo(call.impl, call.target)
        THEN InvalidImplementation(call.target, call.impl)
    ELSE IF call.lifetime \notin {Transient, Scoped, Singleton}
        THEN UndefinedLifetime(call.lifetime)
    ELSE IF call.lifetime # Transient /\ Kind(call.impl) \notin {"Pointer", "Chan"}
        THEN UnsharableType(call.impl, call.lifetime)
    ELSE IF call.factory = NilFactory
        THEN ErrNilFactory
    ELSE NoError

----------------------------------------------------------------------------
(* The contents of the caches (Spec). *)

\* The singleton cache holds Singleton types only, a scoped cache Scoped types
\* only; no value is an entry of two caches, and no call that went through a
\* cache returned a value that is an entry of another cache.
CachesApart ==
    /\ \A t \in DOMAIN instances[Root] : HasLifetime(t, Singleton)
    /\ \A c \in CacheIds \ {Root} : \A t \in DOMAIN instances[c] : HasLifetime(t, Scoped)
    /\ \A c1, c2 \in CacheIds :
        c1 # c2 => \A t1 \in DOMAIN instances[c1], t2 \in DOMAIN instances[c2] :
                        instances[c1][t1] # instances[c2][t2]
    /\ \A r \in Calls :
        (r.cache # NoCache /\ Ok(r)) =>
            \A c \in CacheIds \ {r.cache} : \A t \in DOMAIN instances[c] :
                instances[c][t] # r.val

\* Every entry of every cache is still there, with the same value, after the step.
EntriesKept ==
    \A c \in CacheIds : \A t \in DOMAIN instances[c] :
        t \in DOMAIN instances'[c] /\ instances'[c][t] = instances[c][t]

\* C32: the singleton cache only holds entries for Singleton types and a
\* scope's cache only for Scoped types; an instance of one scope's cache is
\* never an entry of, or returned from, another cache; and an entry, once
\* stored, is never replaced or removed.
C32_CacheContents ==
    /\ []CachesApart
    /\ [][EntriesKept]_vars

\* Two scopes hold an instance of the same Scoped type each.
C32_Witness ==
    /\ Len(scopes) = 2
    /\ Has(1, "TScoped") /\ Has(2, "TScoped")
    /\ instances[1]["TScoped"] # instances[2]["TScoped"]

----------------------------------------------------------------------------
(* Singleton factories and scoped values (SpecDependencies). *)

\* The values a struct value is made of: itself and, field by field, the
\* values of its fields.
RECURSIVE Parts(_)

Parts(v) ==
    {v} \cup UNION {Parts(v.fields[i]) : i \in 1..Len(v.fields)}

\* The values held by the caches of the scopes.
ScopedInstances ==
    UNION {{instances[c][t] : t \in DOMAIN instances[c]} : c \in CacheIds \ {Root}}

\* C33: the factory of a Singleton type gets the RootProvider as its Resolver,
\* also when the call was made on a Scope; its request for a Scoped type
\* fails with ScopedValueRequestedFromRootProvider, the Singleton is then not
\* cached, and no value of the singleton cache holds a value of a scoped cache.
C33_SingletonFactoryGetsRoot ==
    /\ \A p \in Callers : \A i \in 1..Len(callers[p]) :
        HasLifetime(callers[p][i].typ, Singleton) => callers[p][i].resolver = Root
    /\ \A r \in Calls :
        (HasLifetime(r.typ, Singleton) /\ r.invoked = 1) =>
            /\ r.resolver = Root
            /\ \A i \in 1..Len(r.got) :
                /\ r.got[i].ctx = Root
                /\ HasLifetime(r.got[i].typ, Scoped) =>
                    /\ r.got[i].err = ScopedValueRequestedFromRootProvider(r.got[i].typ)
                    /\ r.err = resolverError(r.got[i].err)
                    /\ r.val = NilService
    /\ ~Has(Root, "TSingletonOfScoped")
    /\ \A t \in DOMAIN instances[Root] :
        Parts(instances[Root][t]) \cap ScopedInstances = {}

\* The first resolve of a Singleton with a Scoped dependency was made on a
\* Scope whose cache holds an instance of that Scoped type, and failed.
C33_Witness ==
    \E r \in Requests :
        /\ r.typ = "TSingletonOfScoped"
        /\ r.ctx # Root
        /\ Has(ScopedValuesOf(r.ctx), "TScoped")
        /\ r.err = resolverError(ScopedValueRequestedFromRootProvider("TScoped"))
        /\ instances[Root] = <<>>

----------------------------------------------------------------------------
(* The goroutines of Scope.Close (SpecClose). *)

\* C35: a close task never waits to send its result: while a task has not
\* sent, closeErrorsCh has room, whether or not Close is still receiving; a
\* task that has sent can run wg.Done(), and once every task has ended the
\* WaitGroup is at zero, so that the waiter ends.
C35_TasksNeverBlock ==
    /\ \A v \in DOMAIN tasks :
        /\ tasks[v].pc = "close" =>
                Len(closeErrorsCh) < ChanCap(Cardinality(DOMAIN tasks))
        /\ tasks[v].pc = "sent" => wg > 0
    /\ Len(closeErrorsCh) <= Arrived
    /\ wg = Cardinality({v \in DOMAIN tasks : tasks[v].pc # "done"})
    /\ (closePc # "idle" /\ AllTasksDone /\ ~wgDone) => ENABLED Waiter

\* Close returned on cancellation before any result was received; every task
\* has ended since, all results are still in the channel, and the waiter
\* has ended.
C35_Witness ==
    /\ closePc = "returned"
    /\ ctxDone
    /\ closeResult = <<>>
    /\ Cardinality(DOMAIN tasks) = 2
    /\ AllTasksDone
    /\ Len(closeErrorsCh) = 2
    /\ wgDone

\* The scope Close was called on holds no value with a close capability.
NothingToClose == Closeable(ScopedValuesOf(closeScope)) = {}

\* C36: Close on a scope that holds no value with a close capability starts
\* no task and returns the empty list, whether or not the context is ever
\* done.
C36_NothingToClose ==
    /\ []((closePc # "idle" /\ NothingToClose) =>
            /\ tasks = <<>>
            /\ wg = 0
            /\ closeErrorsCh = <<>>
            /\ closePc = "returned" => closeResult = <<>>)
    /\ (closePc = "select" /\ NothingToClose) ~> (closePc = "returned")

\* Close returned on a scope that holds a value without close capability,
\* with a context that is not done.
C36_Witness ==
    /\ closePc = "returned"
    /\ ~ctxDone
    /\ instances[closeScope] # <<>>
    /\ NothingToClose
    /\ closeResult = <<>>

\* The scoped caches other than the one of scope s.
OtherScopedCaches(s) == CacheIds \ {Root, s}

\* C37: Scope 2 was created by Scope 1 with Scope.NewScope.  Close on either
\* starts close tasks for the closeable values of its own cache and for no
\* value of the other's cache, and a Singleton type is resolved by both through
\* the one singleton cache.
C37_ChildScopeIndependent ==
    /\ scopes[2] = 1
    /\ closePc # "idle" =>
        /\ DOMAIN tasks \subseteq {instances[closeScope][t] : t \in DOMAIN instances[closeScope]}
        /\ \A c \in OtherScopedCaches(closeScope) : \A t \in DOMAIN instances[c] :
                instances[c][t] \notin DOMAIN tasks
        /\ \A t \in DOMAIN instances[closeScope] :
                Capability(t) # "none" => instances[closeScope][t] \in DOMAIN tasks
    /\ \A t \in SingletonCloseTypes :
        /\ Dispatch(1, t).cache = Root
        /\ Dispatch(2, t).cache = Dispatch(1, t).cache

\* Close was called on the parent while parent and child each held a closer:
\* the only task is the one of the parent's value.
C37_Witness ==
    /\ closePc # "idle"
    /\ closeScope = 1
    /\ scopes[2] = 1
    /\ "TCloser" \in DOMAIN instances[1]
    /\ "TCloser" \in DOMAIN instances[2]
    /\ DOMAIN tasks = {instances[1]["TCloser"]}

----------------------------------------------------------------------------
(* Hits of instanceMap.resolve (Spec). *)

\* The calls that returned from the fast path or from the re-check.
Hits == {r \in Calls : r.via \in {"get", "check"}}

\* C38: a resolve that finds an entry for the type, on the fast path or in
\* the re-check under the write lock, returns that entry and makes no factory
\* call: the factory runs only while the cache has no entry for the type, and
\* a step that returns a hit allocates nothing and stores nothing.
C38_HitInvokesNoFactory ==
    /\ [](/\ \A r \in Hits :
                /\ r.invoked = 0
                /\ r.err = NoError
                /\ r.typ \in DOMAIN instances[r.cache]
                /\ r.val = instances[r.cache][r.typ]
          /\ \A p \in Callers : \A i \in 1..Len(callers[p]) :
                callers[p][i].pc = "build" =>
                    callers[p][i].typ \notin DOMAIN instances[callers[p][i].cache])
    /\ [][BagCardinality(history') > BagCardinality(history)
            /\ (\E r \in BagToSet(history') :
                    /\ r.via \in {"get", "check"}
                    /\ CopiesIn(r, history') > CopiesIn(r, history))
          => UNCHANGED <<instances, nextInstance>>]_vars

\* A goroutine missed on the fast path of a scope's cache and found the entry
\* in the re-check.
C38_Witness ==
    \E r \in Hits :
        /\ r.via = "check"
        /\ r.cache # Root
        /\ r.invoked = 0
        /\ r.val = instances[r.cache][r.typ]

----------------------------------------------------------------------------
(* Struct types registered without their dependencies (SpecStructs). *)

\* The types of the exported fields of the struct registered by the call that
\* have no registration, in the order of the fields.
UnregisteredFields(typ) ==
    SelectSeq(Deps(typ), LAMBDA t : t \notin DOMAIN registrations)

\* What Resolve of the registered type returns, whichever context it is
\* called on, and what the caches hold afterwards.
ResolveFailsOnUnregisteredField ==
    \A r \in Requests :
        IF UnregisteredFields(r.typ) = <<>>
            THEN r.err = NoError
            ELSE /\ r.err = resolverError(UnknownType(UnregisteredFields(r.typ)[1]))
                 /\ IsErrResolverError(r.err)
                 /\ IsErrUnknownType(Unwrap(r.err))
                 /\ r.val = NilService
                 /\ \A c \in CacheIds : instances[c] = <<>>

\* C39 as stated: RegisterType of a struct type as its own target, with any
\* of the three lifetimes, succeeds whatever the fields of the struct are;
\* when an exported field's type has no registration, Resolve of the struct
\* type fails with a resolver error wrapping UnknownType of that field type
\* and nothing is cached.
C39_StructRegistrationSucceeds ==
    /\ (/\ Called
        /\ Kind(lastCall.impl) = "Struct"
        /\ lastCall.lifetime \in {Transient, Scoped, Singleton}) =>
            lastCall.err = NoError
    /\ ResolveFailsOnUnregisteredField

\* C39 amended: RegisterType of a struct type succeeds with Transient and is
\* rejected as unsharable with Scoped or Singleton, and RegisterType of a
\* pointer to a struct type succeeds with any of the three lifetimes,
\* whatever the fields of the struct are; when an exported field's type has
\* no registration, Resolve of the registered type fails with a resolver
\* error wrapping UnknownType of that field type and nothing is cached.
C39_StructOrPointerRegistrationSucceeds ==
    /\ (Called /\ lastCall.lifetime \in {Transient, Scoped, Singleton}) =>
            lastCall.err =
                IF Kind(lastCall.impl) = "Struct" /\ lastCall.lifetime # Transient
                    THEN UnsharableType(lastCall.impl, lastCall.lifetime)
                    ELSE NoError
    /\ (Called /\ lastCall.err = NoError) =>
            Observable(lastCall.out) = Put(<<>>, lastCall.target, Registered(lastCall))
    /\ ResolveFailsOnUnregisteredField

\* A pointer to thing was registered as Singleton; resolved on a Scope it
\* failed for the type of the first field, and no cache holds anything.
C39_Witness ==
    /\ Called
    /\ lastCall.impl = PointerTo(TypeFor("thing"))
    /\ lastCall.lifetime = Singleton
    /\ lastCall.err = NoError
    /\ \E r \in Requests :
        /\ r.ctx # Root
        /\ r.typ = lastCall.impl
        /\ r.err = resolverError(UnknownType(TypeFor("widget")))
    /\ instances[Root] = <<>>

\* The values cached in a scope that have a close capability.
WithCapability(cache) ==
    {v \in Values(cache) : Capability(TypeOfValue(cache, v)) # "none"}

\* A step of Scope.Close leaves every cache as it was.
CloseKeepsCaches == closeVars' # closeVars => instances' = instances

\* A call of Scope.Close starts one task for each closeable value that the
\* cache of the scope holds, whether or not the scope was closed before.
CloseStartsTasks ==
    closeCalls' # closeCalls =>
        /\ DOMAIN tasks' = WithCapability(ScopedValuesOf(closeScope'))
        /\ \A v \in DOMAIN tasks' : tasks'[v].pc = "close"

\* The values a call of Close has closed are still cached in the scope.
ClosedValuesCached == DOMAIN tasks \subseteq Values(ScopedValuesOf(closeScope))

\* A Resolve call made in SpecReclose, that is after a Close call returned,
\* for a type the cache holds, returns the cached instance and invokes no factory.
ResolveAfterCloseHits ==
    \A r \in Calls :
        r.via # "build" /\ r.err = NoError =>
            /\ r.invoked = 0
            /\ r.typ \in DOMAIN instances[r.cache]
            /\ r.val = instances[r.cache][r.typ]

\* C34: Scope.Close leaves the cache of the scope unchanged: a Resolve of a
\* Scoped type on the scope after Close has returned still returns the
\* instance cached before Close and invokes no factory, and a second Close
\* call starts a close task for each closeable cached value again.
C34_CloseKeepsCache ==
    /\ []ClosedValuesCached
    /\ []ResolveAfterCloseHits
    /\ [][CloseKeepsCaches /\ CloseStartsTasks]_vars

\* Scope.Close was called twice on a scope, the second call started tasks,
\* and between the two calls a Resolve on the scope returned a value from the
\* cache that the first call had closed and the second is closing again.
C34_Witness ==
    /\ closeCalls = 2
    /\ tasks # <<>>
    /\ \E r \in Calls :
        /\ r.via = "get"
        /\ r.ctx = closeScope
        /\ r.cache = ScopedValuesOf(closeScope)
        /\ registrations[r.typ].lifetime = Scoped
        /\ r.val \in DOMAIN tasks

====
